---- MODULE Spec2Model ----
(***************************************************************************)
(* Model of the SuperCollider MCP server: the resource id allocators       *)
(* (allocators.ts), the sclang process executor and process registry       *)
(* (executeSclang, killAllSclangProcesses), the engine client and the      *)
(* tools that use it (client.ts, tools), batch SynthDef compilation        *)
(* (compileSynthDefsBatch) and server discovery (discovery.ts).            *)
(***************************************************************************)
EXTENDS Integers, Sequences, FiniteSets, TLC

(***************************************************************************)
(* PART I - allocators.ts                                                  *)
(*                                                                         *)
(* The four allocator classes hold the same three fields.  A JavaScript    *)
(* Set iterates in insertion order, so freeIds is a sequence without       *)
(* repetitions: freeIds.values().next().value is its head.                 *)
(***************************************************************************)
VARIABLES
  kind,        \* which of the four classes this instance is
  maxCount,    \* the constructor argument (maxNodes, maxBuffers, ...)
  nextId,      \* the watermark
  freeIds,     \* Set<number> of released ids, in insertion order
  allocated,   \* Set<number> of live ids
  lastOp,      \* the call that produced this state: "new", "alloc", "free", "reset"
  lastRet      \* what the last alloc() returned: {id}, or {} for null

allocVars == <<kind, maxCount, nextId, freeIds, allocated, lastOp, lastRet>>

(***************************************************************************)
(* State of PART II (executeSclang, killAllSclangProcesses), declared here *)
(* so that the allocator's operations can leave it alone.                  *)
(***************************************************************************)
VARIABLES
  inv,                    \* one record per executeSclang invocation: its closure variables and its worker
  activeSclangProcesses,  \* the process registry (a Set<ChildProcess>)
  files,                  \* the scratch files that exist on disk
  shutdown,               \* the SIGINT/SIGTERM handler runs of index.ts, in order of arrival
  dropped,                \* the workers a killAllSclangProcesses call cleared out of the registry
  hostExited,             \* process.exit(0) was called
  posix                   \* whether process.kill(-pid) can signal a process group on this platform

execVars == <<inv, activeSclangProcesses, files, shutdown, dropped, hostExited, posix>>

(***************************************************************************)
(* State of PART III (SuperColliderClient and the tools that use it),      *)
(* PART IV (compileSynthDefsBatch), PART V (discoverSuperCollider),        *)
(* PART VI (SclangClient) and PART VII (SuperColliderClient's methods).    *)
(***************************************************************************)
VARIABLES
  connectionState,  \* SuperColliderClient.connectionState
  scServer,         \* SuperColliderClient.scServer: "null" or "server"
  allocators,       \* the client's four allocators, by kind
  calls,            \* the tool calls in flight, one record per call slot
  batch,            \* one compileSynthDefsBatch call: its locals and the artifacts on disk
  scan,             \* one discoverSuperCollider call: its locals and the probe in flight
  sclangClient,     \* a SclangClient: its fields and its method calls in flight
  scClient          \* a SuperColliderClient with numbered server handles and its method calls

clientVars == <<connectionState, scServer, allocators, calls>>

restVars == <<clientVars, batch, scan, sclangClient, scClient>>

vars == <<allocVars, execVars, restVars>>

\* Largest constructor argument explored.
MaxRange == 3

\* NodeAllocator.startId
NodeStartId == 1000

\* numOutputBusChannels as the client passes it to AudioBusAllocator
NumOutputBusChannels == 8

Kinds == {"node", "buffer", "audioBus", "controlBus"}

\* First id of the range: startId of NodeAllocator and AudioBusAllocator, the
\* literal 0 of BufferAllocator and ControlBusAllocator.
startId ==
  CASE kind = "node" -> NodeStartId
    [] kind = "audioBus" -> NumOutputBusChannels
    [] OTHER -> 0

\* maxId as the constructors of NodeAllocator and AudioBusAllocator compute it.
maxId == startId + maxCount - 1

SeqToSet(s) == {s[k] : k \in 1..Len(s)}

\* The limit test of alloc(): nextId > maxId in NodeAllocator and
\* AudioBusAllocator, nextId >= maxBuffers / maxBuses in the other two.
AtLimitOffByOne ==
  IF kind \in {"node", "audioBus"} THEN nextId > maxId + 1 ELSE nextId > maxCount

\* A limit test that never finds the range used up.
AtLimitNever == FALSE

AtLimit ==
  IF kind \in {"node", "audioBus"} THEN nextId > maxId ELSE nextId >= maxCount

\* The ids free() may be called with: the whole range and one id on each side.
FreeArgs == (startId - 1)..(startId + maxCount)

\* A constructor that starts the watermark one above the range start.
AllocConstructedOffByOne(k, n) ==
  /\ kind = k
  /\ maxCount = n
  /\ nextId = startId + 1
  /\ freeIds = <<>>
  /\ allocated = {}
  /\ lastOp = "new"
  /\ lastRet = {}

AllocConstructed(k, n) ==
  /\ kind = k
  /\ maxCount = n
  /\ nextId = startId
  /\ freeIds = <<>>
  /\ allocated = {}
  /\ lastOp = "new"
  /\ lastRet = {}

AllocInit == \E k \in Kinds : \E n \in 0..MaxRange : AllocConstructed(k, n)

\* alloc() with the recycled id left in freeIds.
AllocKeepsFree ==
  /\ lastOp' = "alloc"
  /\ UNCHANGED <<kind, maxCount, execVars, restVars>>
  /\ IF Len(freeIds) > 0
       THEN /\ allocated' = allocated \cup {Head(freeIds)}
            /\ lastRet' = {Head(freeIds)}
            /\ UNCHANGED <<freeIds, nextId>>
       ELSE IF AtLimit
         THEN /\ lastRet' = {}
              /\ UNCHANGED <<freeIds, allocated, nextId>>
         ELSE /\ nextId' = nextId + 1
              /\ allocated' = allocated \cup {nextId}
              /\ lastRet' = {nextId}
              /\ UNCHANGED freeIds

\* alloc() that grows the watermark before it recycles.
AllocWatermarkFirst ==
  /\ lastOp' = "alloc"
  /\ UNCHANGED <<kind, maxCount, execVars, restVars>>
  /\ IF ~AtLimit
       THEN /\ nextId' = nextId + 1
            /\ allocated' = allocated \cup {nextId}
            /\ lastRet' = {nextId}
            /\ UNCHANGED freeIds
       ELSE IF Len(freeIds) > 0
         THEN /\ freeIds' = Tail(freeIds)
              /\ allocated' = allocated \cup {Head(freeIds)}
              /\ lastRet' = {Head(freeIds)}
              /\ UNCHANGED nextId
         ELSE /\ lastRet' = {}
              /\ UNCHANGED <<freeIds, allocated, nextId>>

alloc ==
  /\ lastOp' = "alloc"
  /\ UNCHANGED <<kind, maxCount, execVars, restVars>>
  /\ IF Len(freeIds) > 0
       THEN /\ freeIds' = Tail(freeIds)
            /\ allocated' = allocated \cup {Head(freeIds)}
            /\ lastRet' = {Head(freeIds)}
            /\ UNCHANGED nextId
       ELSE IF AtLimit
         THEN /\ lastRet' = {}
              /\ UNCHANGED <<freeIds, allocated, nextId>>
         ELSE /\ nextId' = nextId + 1
              /\ allocated' = allocated \cup {nextId}
              /\ lastRet' = {nextId}
              /\ UNCHANGED freeIds

\* free(id) without the allocated.has(id) test.
FreeUnchecked(id) ==
  /\ lastOp' = "free"
  /\ UNCHANGED <<kind, maxCount, nextId, lastRet, execVars, restVars>>
  /\ allocated' = allocated \ {id}
  /\ freeIds' = IF id \in SeqToSet(freeIds) THEN freeIds ELSE Append(freeIds, id)

free(id) ==
  /\ lastOp' = "free"
  /\ UNCHANGED <<kind, maxCount, nextId, lastRet, execVars, restVars>>
  /\ IF id \in allocated
       THEN /\ allocated' = allocated \ {id}
            /\ freeIds' = Append(freeIds, id)
       ELSE UNCHANGED <<allocated, freeIds>>

Free == \E id \in FreeArgs : free(id)

\* reset() that leaves the watermark where it is.
ResetKeepsWatermark ==
  /\ lastOp' = "reset"
  /\ freeIds' = <<>>
  /\ allocated' = {}
  /\ UNCHANGED <<kind, maxCount, nextId, lastRet, execVars, restVars>>

reset ==
  /\ lastOp' = "reset"
  /\ nextId' = startId
  /\ freeIds' = <<>>
  /\ allocated' = {}
  /\ UNCHANGED <<kind, maxCount, lastRet, execVars, restVars>>

isAllocated(id) == id \in allocated

getAllocatedCount == Cardinality(allocated)

AllocNext == alloc \/ Free \/ reset

(***************************************************************************)
(* PART II - executeSclang and killAllSclangProcesses (sclangClient.ts)    *)
(*                                                                         *)
(* Node runs one handler at a time; an action below is one such run, from  *)
(* the event that starts it to the next await that has to wait for the     *)
(* event loop, the promise continuations it releases included.             *)
(***************************************************************************)

\* Number of executeSclang invocations explored.
NumInv == 2

\* Number of termination signals the host receives before it exits.
MaxSignals == 2

\* timeoutMs: number = 30000
DefaultTimeoutMs == 30000

\* Number of chunks a worker writes to each of its output streams.
MaxChunks == 2

Invs == 1..NumInv

Signals == {"SIGTERM", "SIGINT"}

\* The timeoutMs argument of invocation i: the default for the first call, a
\* shorter one for the later calls.
TimeoutMsOf(i) == DefaultTimeoutMs \div i

\* String.prototype.includes
includes(s, n) ==
  \E k \in 1..(Len(s) - Len(n) + 1) : SubSeq(s, k, k + Len(n) - 1) = n

\* The messages the executor builds.
TimeoutMessage(ms) == "sclang execution timed out after " \o ToString(ms) \o "ms"

\* The exit message without the exit code.
ExitMessageNoCode(code) == "sclang exited with an error"

ExitMessage(code) == "sclang exited with code " \o code

NoPidMessage == "Failed to spawn sclang process (no PID assigned)"

NotFoundMessage ==
  "sclang interpreter not found at 'sclang'. Please ensure SuperCollider is installed and in PATH, or set SCLANG_PATH environment variable to the sclang executable path."

FailedMessage(m) == "Failed to execute sclang: " \o m

\* What the runtime reports: the message of a synchronous throw of spawn(),
\* and the messages of an 'error' event on a worker that has a pid.
SpawnThrowMessage == "spawn ENOMEM"

ErrorEventMessages == {"kill EPERM"}

\* Why spawn() returned a handle without a pid.
NoPidCauses == {"ENOENT", "EAGAIN"}

\* The k-th chunk a worker writes to standard output and to standard error.
OutChunk(k) == "out" \o ToString(k) \o ";"

ErrChunk(k) == "ERROR " \o ToString(k) \o ";"

\* An error value: sc tells whether it is a SuperColliderError.
PlainError(m) == [sc |-> FALSE, msg |-> m]

ScError(m) == [sc |-> TRUE, msg |-> m]

Pending == [st |-> "pending", msg |-> ""]

Success == [st |-> "ok", msg |-> ""]

Failure(e) == [st |-> "fail", msg |-> e.msg]

\* The error the catch block throws for the error it caught.
CatchThrows(error, ms) ==
  IF error.sc THEN error
  ELSE IF includes(error.msg, "ETIMEDOUT") \/ includes(error.msg, "timeout")
    THEN ScError(TimeoutMessage(ms))
  ELSE IF includes(error.msg, "ENOENT") \/ includes(error.msg, "not found")
    THEN ScError(NotFoundMessage)
  ELSE ScError(FailedMessage(error.msg))

\* An invocation that has not been called yet.
FreshInvocation(i) ==
  [ pc             |-> "idle",       \* idle, writing, unlinkNoPid, racing, catchWait, done
    timeoutMs      |-> TimeoutMsOf(i),
    childProc      |-> "undefined",  \* undefined, nopid (a handle without pid), pid
    tmpFile        |-> FALSE,        \* the variable holds the scratch path
    timeoutHandle  |-> FALSE,        \* the timer is pending
    cleanupPromise |-> "undefined",  \* undefined, pending, resolved
    signalHandler  |-> FALSE,        \* the variable holds the handler
    listening      |-> {},           \* the signals the handler is registered for on process
    killed         |-> FALSE,        \* proc.killed
    worker         |-> "none",       \* none, running, exit0, exit1, exitNull (the OS process)
    killSent       |-> FALSE,        \* a SIGKILL was delivered to the worker or its group
    exitSeen       |-> FALSE,        \* the 'exit' event was emitted (the worker is reaped)
    errorSeen      |-> FALSE,        \* the 'error' event was emitted
    error          |-> PlainError(""), \* the error the catch block holds while it waits
    race           |-> Pending,      \* what Promise.race settled with
    result         |-> Pending,      \* what the caller's promise settled with
    cause          |-> "none",       \* why the call failed: the first thing that went wrong
    first          |-> "none",       \* which of exit, timer, error fired first
    callers        |-> {},           \* who called cleanup()
    runs           |-> 0,            \* how often the body of cleanup() ran
    deletes        |-> 0,            \* activeSclangProcesses.delete(proc) calls
    unlinks        |-> 0,            \* fs.unlink calls made by cleanup()
    directUnlinks  |-> 0,            \* fs.unlink calls made by the no-pid branch
    kills          |-> <<>>,         \* the kill calls cleanup() made
    killAllKills   |-> <<>>,         \* the kill calls killAllSclangProcesses made
    outCount       |-> 0,            \* chunks the worker wrote to standard output
    errCount       |-> 0,            \* chunks the worker wrote to standard error
    outWritten     |-> "",           \* all the worker wrote to standard output
    outPipe        |-> <<>>,         \* stdout chunks not yet delivered as 'data' events
    errPipe        |-> <<>>,         \* stderr chunks not yet delivered as 'data' events
    stdout         |-> "",           \* let stdout = ''
    stderr         |-> "",           \* let stderr = ''
    returned       |-> "" ]          \* the text executeSclang returned

\* process.kill(-pid, 'SIGKILL') succeeds while the group exists: on a platform
\* with process groups, until the worker has been reaped.
GroupKillOk(r) == posix /\ ~r.exitSeen

\* proc.kill('SIGKILL') sends the signal and sets proc.killed while the handle
\* is open, and returns false after the worker has been reaped.
DirectKillOk(r) == ~r.exitSeen

\* The kill block of cleanup() without the direct kill in its catch.
CleanupKillNoFallback(r) ==
  IF GroupKillOk(r)
    THEN [r EXCEPT !.killSent = TRUE, !.kills = Append(@, "group")]
    ELSE [r EXCEPT !.kills = Append(@, "group")]

\* The kill block of cleanup(): group kill, direct kill if that throws.
CleanupKill(r) ==
  IF GroupKillOk(r)
    THEN [r EXCEPT !.killSent = TRUE, !.kills = Append(@, "group")]
    ELSE [r EXCEPT !.killSent = @ \/ DirectKillOk(r),
                   !.killed = @ \/ DirectKillOk(r),
                   !.kills = @ \o <<"group", "direct">>]

\* cleanup(proc, killProcess) without the cleanupPromise guard.
cleanupUnguarded(r, killProcess, caller) ==
  LET k == IF killProcess /\ r.childProc = "pid" /\ ~r.killed
             THEN CleanupKill(r) ELSE r
  IN [k EXCEPT !.callers = @ \cup {caller},
               !.timeoutHandle = FALSE,
               !.runs = @ + 1,
               !.deletes = @ + 1,
               !.tmpFile = FALSE,
               !.unlinks = IF r.tmpFile THEN @ + 1 ELSE @,
               !.cleanupPromise = IF r.tmpFile THEN "pending" ELSE @,
               !.signalHandler = IF r.tmpFile THEN @ ELSE FALSE,
               !.listening = IF r.tmpFile THEN @ ELSE {}]

\* cleanup(proc, killProcess) that kills whatever killProcess says.
cleanupKillsAlways(r, killProcess, caller) ==
  IF r.cleanupPromise # "undefined"
    THEN [r EXCEPT !.callers = @ \cup {caller}]
    ELSE LET k == IF r.childProc = "pid" /\ ~r.killed
                    THEN CleanupKill(r) ELSE r
         IN [k EXCEPT !.callers = @ \cup {caller},
                      !.timeoutHandle = FALSE,
                      !.runs = @ + 1,
                      !.deletes = @ + 1,
                      !.tmpFile = FALSE,
                      !.unlinks = IF r.tmpFile THEN @ + 1 ELSE @,
                      !.cleanupPromise = IF r.tmpFile THEN "pending" ELSE "resolved",
                      !.signalHandler = IF r.tmpFile THEN @ ELSE FALSE,
                      !.listening = IF r.tmpFile THEN @ ELSE {}]

\* cleanup(proc, killProcess) up to its await of fs.unlink: a later call
\* returns the promise of the first.  Without a scratch path there is nothing
\* to await and the body runs to its end.
cleanup(r, killProcess, caller) ==
  IF r.cleanupPromise # "undefined"
    THEN [r EXCEPT !.callers = @ \cup {caller}]
    ELSE LET k == IF killProcess /\ r.childProc = "pid" /\ ~r.killed
                    THEN CleanupKill(r) ELSE r
         IN [k EXCEPT !.callers = @ \cup {caller},
                      !.timeoutHandle = FALSE,
                      !.runs = @ + 1,
                      !.deletes = @ + 1,
                      !.tmpFile = FALSE,
                      !.unlinks = IF r.tmpFile THEN @ + 1 ELSE @,
                      !.cleanupPromise = IF r.tmpFile THEN "pending" ELSE "resolved",
                      !.signalHandler = IF r.tmpFile THEN @ ELSE FALSE,
                      !.listening = IF r.tmpFile THEN @ ELSE {}]

\* cleanup() that leaves the registry alone.
UntrackForgets(S, i, r) == S

\* activeSclangProcesses.delete(proc), which the body of cleanup() runs.
Untrack(S, i, r) == IF r.cleanupPromise = "undefined" THEN S \ {i} ELSE S

\* The first of the three triggers of the race.
Trigger(r, t) == IF r.first = "none" THEN [r EXCEPT !.first = t, !.cause = t] ELSE r

\* The catch block: cleanup(childProc, true) when there is a handle, awaited,
\* then the classified error.  With the cleanup still pending the block waits.
Catch(r, error) ==
  LET c == IF r.childProc # "undefined" THEN cleanup(r, TRUE, "catch") ELSE r
  IN IF c.cleanupPromise = "pending"
       THEN [c EXCEPT !.pc = "catchWait", !.error = error]
       ELSE [c EXCEPT !.pc = "done",
                      !.result = Failure(CatchThrows(error, c.timeoutMs))]

\* reject(error) that settles the race again after it was settled.
RejectLate(r, error) == Catch([r EXCEPT !.race = Failure(error)], error)

\* reject(error) on a promise of the race: the first settlement counts.
Reject(r, error) ==
  IF r.pc = "racing" THEN Catch([r EXCEPT !.race = Failure(error)], error) ELSE r

\* resolve({stdout, stderr}) of the result promise: the call returns stdout.
Resolve(r) ==
  IF r.pc = "racing"
    THEN [r EXCEPT !.pc = "done", !.race = Success, !.result = Success,
                   !.returned = r.stdout]
    ELSE r

ExecStart(p) ==
  /\ inv = [i \in Invs |-> FreshInvocation(i)]
  /\ activeSclangProcesses = {}
  /\ files = {}
  /\ shutdown = <<>>
  /\ dropped = {}
  /\ hostExited = FALSE
  /\ posix = p

ExecInit == \E p \in BOOLEAN : ExecStart(p)

\* executeSclang(code, timeoutMs) up to its await of fs.writeFile.
Call(i) ==
  /\ ~hostExited
  /\ inv[i].pc = "idle"
  /\ \A j \in 1..(i - 1) : inv[j].pc # "idle"
  /\ inv' = [inv EXCEPT ![i].pc = "writing", ![i].tmpFile = TRUE]
  /\ UNCHANGED <<activeSclangProcesses, files, shutdown, dropped, hostExited, posix, allocVars, restVars>>

\* The scratch file is written and spawn() returns a worker with a pid: it is
\* tracked, the signal handlers and the timer are set, the race is awaited.
SpawnWorker(i) ==
  /\ ~hostExited
  /\ inv[i].pc = "writing"
  /\ files' = files \cup {i}
  /\ inv' = [inv EXCEPT ![i].pc = "racing",
                        ![i].childProc = "pid",
                        ![i].worker = "running",
                        ![i].signalHandler = TRUE,
                        ![i].listening = Signals,
                        ![i].timeoutHandle = TRUE]
  /\ activeSclangProcesses' = activeSclangProcesses \cup {i}
  /\ UNCHANGED <<shutdown, dropped, hostExited, posix, allocVars, restVars>>

\* spawn() returns a handle without a pid: the no-pid branch awaits fs.unlink.
SpawnNoPid(i) ==
  /\ ~hostExited
  /\ inv[i].pc = "writing"
  /\ files' = files \cup {i}
  /\ \E c \in NoPidCauses :
       inv' = [inv EXCEPT ![i].pc = "unlinkNoPid",
                          ![i].childProc = "nopid",
                          ![i].cause = c,
                          ![i].directUnlinks = @ + 1]
  /\ UNCHANGED <<activeSclangProcesses, shutdown, dropped, hostExited, posix, allocVars, restVars>>

\* spawn() throws: childProc stays undefined and the catch block has nothing
\* to clean up.
SpawnThrows(i) ==
  /\ ~hostExited
  /\ inv[i].pc = "writing"
  /\ files' = files \cup {i}
  /\ inv' = [inv EXCEPT ![i] = Catch([@ EXCEPT !.cause = "throw"],
                                     PlainError(SpawnThrowMessage))]
  /\ UNCHANGED <<activeSclangProcesses, shutdown, dropped, hostExited, posix, allocVars, restVars>>

\* The unlink of the no-pid branch is done: it throws the spawn failure, and
\* the catch block runs cleanup on the handle.
NoPidUnlinkDone(i) ==
  /\ ~hostExited
  /\ inv[i].pc = "unlinkNoPid"
  /\ files' = files \ {i}
  /\ inv' = [inv EXCEPT ![i] = Catch(@, ScError(NoPidMessage))]
  /\ activeSclangProcesses' = Untrack(activeSclangProcesses, i, inv[i])
  /\ UNCHANGED <<shutdown, dropped, hostExited, posix, allocVars, restVars>>

\* What is left of an invocation when the host is gone: the worker process,
\* which runs detached in its own process group.
Orphaned(i) ==
  [FreshInvocation(i) EXCEPT !.pc = "gone",
                             !.childProc = inv[i].childProc,
                             !.worker = inv[i].worker,
                             !.killSent = inv[i].killSent,
                             !.exitSeen = inv[i].exitSeen]

\* The runtime reports the failed spawn as an 'error' event on the handle
\* while the no-pid branch waits for its unlink.  The 'error' listener is only
\* attached after the pid check, so the event is unhandled and ends the host:
\* its memory is gone, the scratch files and the other workers are not.
UnhandledError(i) ==
  /\ ~hostExited
  /\ inv[i].pc = "unlinkNoPid"
  /\ hostExited' = TRUE
  /\ inv' = [j \in Invs |->
               IF j = i THEN [Orphaned(j) EXCEPT !.cause = "unhandled"] ELSE Orphaned(j)]
  /\ activeSclangProcesses' = {}
  /\ shutdown' = <<>>
  /\ dropped' = {}
  /\ UNCHANGED <<files, posix, allocVars, restVars>>

\* The worker process ends by itself with exit code 0 or 1.
WorkerExit(i) ==
  /\ ~hostExited
  /\ inv[i].worker = "running"
  /\ \E w \in {"exit0", "exit1"} : inv' = [inv EXCEPT ![i].worker = w]
  /\ UNCHANGED <<activeSclangProcesses, files, shutdown, dropped, hostExited, posix, allocVars, restVars>>

\* The worker process dies of the SIGKILL it was sent: no exit code.
WorkerDies(i) ==
  /\ ~hostExited
  /\ inv[i].worker = "running"
  /\ inv[i].killSent
  /\ inv' = [inv EXCEPT ![i].worker = "exitNull"]
  /\ UNCHANGED <<activeSclangProcesses, files, shutdown, dropped, hostExited, posix, allocVars, restVars>>

\* The running worker writes its next chunk to standard output or to
\* standard error: it sits in the pipe until the host reads it.
WorkerWrites(i) ==
  /\ ~hostExited
  /\ inv[i].worker = "running"
  /\ \/ /\ inv[i].outCount < MaxChunks
        /\ inv' = [inv EXCEPT ![i].outCount = @ + 1,
                              ![i].outWritten = @ \o OutChunk(inv[i].outCount + 1),
                              ![i].outPipe = Append(@, OutChunk(inv[i].outCount + 1))]
     \/ /\ inv[i].errCount < MaxChunks
        /\ inv' = [inv EXCEPT ![i].errCount = @ + 1,
                              ![i].errPipe = Append(@, ErrChunk(inv[i].errCount + 1))]
  /\ UNCHANGED <<activeSclangProcesses, files, shutdown, dropped, hostExited, posix, allocVars, restVars>>

\* A 'data' event of the worker's stdout or stderr stream: the listener
\* appends the chunk to its string.
DataEvent(i) ==
  /\ ~hostExited
  /\ inv[i].childProc = "pid"
  /\ \/ /\ inv[i].outPipe # <<>>
        /\ inv' = [inv EXCEPT ![i].stdout = @ \o Head(inv[i].outPipe),
                              ![i].outPipe = Tail(@)]
     \/ /\ inv[i].errPipe # <<>>
        /\ inv' = [inv EXCEPT ![i].stderr = @ \o Head(inv[i].errPipe),
                              ![i].errPipe = Tail(@)]
  /\ UNCHANGED <<activeSclangProcesses, files, shutdown, dropped, hostExited, posix, allocVars, restVars>>

\* The waits of killAllSclangProcesses after worker i is accounted for: a
\* call whose last wait ended passes Promise.all.
Accounted(i) ==
  [k \in DOMAIN shutdown |->
     IF shutdown[k].st = "waiting"
       THEN [st   |-> IF shutdown[k].wait \ {i} = {} THEN "resolved" ELSE "waiting",
             wait |-> shutdown[k].wait \ {i}]
       ELSE shutdown[k]]

Passes(i) ==
  \E k \in DOMAIN shutdown : shutdown[k].st = "waiting" /\ Accounted(i)[k].st = "resolved"

\* ExitEvent with a listener that resolves for code 0 only.
ExitEventRejectsNull(i) ==
  /\ ~hostExited
  /\ inv[i].childProc = "pid"
  /\ inv[i].worker \in {"exit0", "exit1", "exitNull"}
  /\ ~inv[i].exitSeen
  /\ LET r0 == Trigger([inv[i] EXCEPT !.exitSeen = TRUE], "exit")
         r1 == cleanup(r0, FALSE, "exit")
         r2 == IF inv[i].worker = "exit0"
                 THEN Resolve(r1)
                 ELSE Reject(r1, PlainError(ExitMessage(
                                   IF inv[i].worker = "exit1" THEN "1" ELSE "null")))
         reg == Untrack(activeSclangProcesses, i, inv[i])
     IN /\ inv' = [inv EXCEPT ![i] = r2]
        /\ shutdown' = Accounted(i)
        /\ activeSclangProcesses' = IF Passes(i) THEN {} ELSE reg
        /\ dropped' = IF Passes(i) THEN dropped \cup reg ELSE dropped
  /\ UNCHANGED <<files, hostExited, posix, allocVars, restVars>>

\* The 'exit' event of worker i: the listener of executeSclang, then the
\* exitHandler of every killAllSclangProcesses call waiting for it; a call that
\* passes Promise.all clears the registry.
ExitEvent(i) ==
  /\ ~hostExited
  /\ inv[i].childProc = "pid"
  /\ inv[i].worker \in {"exit0", "exit1", "exitNull"}
  /\ ~inv[i].exitSeen
  /\ LET r0 == Trigger([inv[i] EXCEPT !.exitSeen = TRUE], "exit")
         r1 == cleanup(r0, FALSE, "exit")
         r2 == IF inv[i].worker \in {"exit0", "exitNull"}
                 THEN Resolve(r1)
                 ELSE Reject(r1, PlainError(ExitMessage("1")))
         reg == Untrack(activeSclangProcesses, i, inv[i])
     IN /\ inv' = [inv EXCEPT ![i] = r2]
        /\ shutdown' = Accounted(i)
        /\ activeSclangProcesses' = IF Passes(i) THEN {} ELSE reg
        /\ dropped' = IF Passes(i) THEN dropped \cup reg ELSE dropped
  /\ UNCHANGED <<files, hostExited, posix, allocVars, restVars>>

\* The 'error' event of a worker that has a pid.
ErrorEvent(i) ==
  /\ ~hostExited
  /\ inv[i].childProc = "pid"
  /\ ~inv[i].errorSeen
  /\ ~inv[i].exitSeen
  /\ \E m \in ErrorEventMessages :
       LET r0 == Trigger([inv[i] EXCEPT !.errorSeen = TRUE], "error")
           r1 == cleanup(r0, FALSE, "error")
       IN inv' = [inv EXCEPT ![i] = Reject(r1, PlainError(m))]
  /\ activeSclangProcesses' = Untrack(activeSclangProcesses, i, inv[i])
  /\ UNCHANGED <<files, shutdown, dropped, hostExited, posix, allocVars, restVars>>

\* The timeout timer fires: cleanup with a kill, then the timeout rejection.
TimerFires(i) ==
  /\ ~hostExited
  /\ inv[i].timeoutHandle
  /\ LET r0 == Trigger(inv[i], "timer")
         r1 == cleanup(r0, TRUE, "timer")
     IN inv' = [inv EXCEPT ![i] = Reject(r1, PlainError(TimeoutMessage(r1.timeoutMs)))]
  /\ activeSclangProcesses' = Untrack(activeSclangProcesses, i, inv[i])
  /\ UNCHANGED <<files, shutdown, dropped, hostExited, posix, allocVars, restVars>>

\* The try/catch around fs.unlink in cleanup(): the promise resolves whether
\* or not the file was there.
UnlinkSettles(present) == "resolved"

\* fs.unlink of cleanup() is done (a missing file is ignored): the signal
\* handlers are removed and the cleanup promise resolves; a catch block that
\* was waiting for it throws its classified error.
UnlinkDone(i) ==
  /\ ~hostExited
  /\ inv[i].cleanupPromise = "pending"
  /\ files' = files \ {i}
  /\ LET r1 == [inv[i] EXCEPT !.cleanupPromise = UnlinkSettles(i \in files),
                              !.signalHandler = FALSE,
                              !.listening = {}]
     IN inv' = [inv EXCEPT ![i] =
                  IF r1.pc = "catchWait"
                    THEN [r1 EXCEPT !.pc = "done",
                                    !.result = Failure(CatchThrows(r1.error, r1.timeoutMs))]
                    ELSE r1]
  /\ UNCHANGED <<activeSclangProcesses, shutdown, dropped, hostExited, posix, allocVars, restVars>>

\* killAllSclangProcesses, one tracked worker: nothing for a killed handle;
\* otherwise the group kill, and the direct kill if the group kill throws.
KillAllVisit(r) ==
  IF r.childProc # "pid" \/ r.killed THEN r
  ELSE IF GroupKillOk(r)
    THEN [r EXCEPT !.killSent = TRUE, !.killAllKills = Append(@, "group")]
    ELSE [r EXCEPT !.killSent = @ \/ DirectKillOk(r),
                   !.killed = @ \/ DirectKillOk(r),
                   !.killAllKills = @ \o <<"group", "direct">>]

\* The workers whose promise stays pending: the group kill went through, so
\* the call waits for the exit event or the grace timer.
KillAllAwaits(r) == r.childProc = "pid" /\ ~r.killed /\ GroupKillOk(r)

\* HostSignal with a killAllSclangProcesses that goes through every worker
\* that has a pid, tracked or not.
HostSignalKillsUntracked(sig) ==
  /\ ~hostExited
  /\ Len(shutdown) < MaxSignals
  /\ LET reg == activeSclangProcesses
         visited == [j \in Invs |-> KillAllVisit(inv[j])]
         waitSet == {j \in Invs : KillAllAwaits(inv[j])}
         handled == {j \in Invs : sig \in inv[j].listening}
         after == [j \in Invs |->
                     IF j \in handled
                       THEN cleanup([visited[j] EXCEPT !.listening = @ \ {sig}], TRUE, "signal")
                       ELSE visited[j]]
         regAfter == {j \in reg : j \notin handled \/ j \in Untrack({j}, j, inv[j])}
         through == reg # {} /\ waitSet = {}
     IN /\ inv' = after
        /\ shutdown' = Append(shutdown,
                              [st   |-> IF waitSet = {} THEN "resolved" ELSE "waiting",
                               wait |-> waitSet])
        /\ activeSclangProcesses' = IF through THEN {} ELSE regAfter
        /\ dropped' = IF through THEN dropped \cup regAfter ELSE dropped
  /\ UNCHANGED <<files, hostExited, posix, allocVars, restVars>>

\* A termination signal reaches the host.  The handler of index.ts, registered
\* first, runs killAllSclangProcesses up to its await; then the one-shot
\* handler of every invocation registered for the signal runs cleanup with a
\* kill.  A killAll call with nothing to wait for returns, after clearing the
\* registry if it had found workers in it.
HostSignal(sig) ==
  /\ ~hostExited
  /\ Len(shutdown) < MaxSignals
  /\ LET reg == activeSclangProcesses
         visited == [j \in Invs |-> IF j \in reg THEN KillAllVisit(inv[j]) ELSE inv[j]]
         waitSet == {j \in reg : KillAllAwaits(inv[j])}
         handled == {j \in Invs : sig \in inv[j].listening}
         after == [j \in Invs |->
                     IF j \in handled
                       THEN cleanup([visited[j] EXCEPT !.listening = @ \ {sig}], TRUE, "signal")
                       ELSE visited[j]]
         regAfter == {j \in reg : j \notin handled \/ j \in Untrack({j}, j, inv[j])}
         through == reg # {} /\ waitSet = {}
     IN /\ inv' = after
        /\ shutdown' = Append(shutdown,
                              [st   |-> IF waitSet = {} THEN "resolved" ELSE "waiting",
                               wait |-> waitSet])
        /\ activeSclangProcesses' = IF through THEN {} ELSE regAfter
        /\ dropped' = IF through THEN dropped \cup regAfter ELSE dropped
  /\ UNCHANGED <<files, hostExited, posix, allocVars, restVars>>

Signal == \E sig \in Signals : HostSignal(sig)

\* The grace timer killAllSclangProcesses set for worker i fires.
GraceTimeout(k, i) ==
  /\ ~hostExited
  /\ k \in DOMAIN shutdown
  /\ shutdown[k].st = "waiting"
  /\ i \in shutdown[k].wait
  /\ LET w == shutdown[k].wait \ {i}
     IN /\ shutdown' = [shutdown EXCEPT ![k] =
                          [st |-> IF w = {} THEN "resolved" ELSE "waiting", wait |-> w]]
        /\ activeSclangProcesses' = IF w = {} THEN {} ELSE activeSclangProcesses
        /\ dropped' = IF w = {} THEN dropped \cup activeSclangProcesses ELSE dropped
  /\ UNCHANGED <<inv, files, hostExited, posix, allocVars, restVars>>

\* The signal handler of index.ts, past killAllSclangProcesses, calls
\* process.exit(0): the host's memory is gone, the scratch files and the
\* workers are not.
HostExit(k) ==
  /\ ~hostExited
  /\ k \in DOMAIN shutdown
  /\ shutdown[k].st = "resolved"
  /\ hostExited' = TRUE
  /\ inv' = [i \in Invs |-> Orphaned(i)]
  /\ activeSclangProcesses' = {}
  /\ shutdown' = <<>>
  /\ dropped' = {}
  /\ UNCHANGED <<files, posix, allocVars, restVars>>

\* The steps of the invocations in S, of their workers and of the host.
ExecNext(S) ==
  \/ \E i \in S : Call(i)
  \/ \E i \in S : SpawnWorker(i)
  \/ \E i \in S : SpawnNoPid(i)
  \/ \E i \in S : SpawnThrows(i)
  \/ \E i \in S : NoPidUnlinkDone(i)
  \/ \E i \in S : UnhandledError(i)
  \/ \E i \in S : WorkerExit(i)
  \/ \E i \in S : WorkerDies(i)
  \/ \E i \in S : ExitEvent(i)
  \/ \E i \in S : ErrorEvent(i)
  \/ \E i \in S : TimerFires(i)
  \/ \E i \in S : UnlinkDone(i)
  \/ Signal
  \/ \E k \in 1..MaxSignals : \E i \in S : GraceTimeout(k, i)
  \/ \E k \in 1..MaxSignals : HostExit(k)

(***************************************************************************)
(* PART III - SuperColliderClient (client.ts) and the tools that use its   *)
(* allocators and its connection (synth, group, buffer and server tools).  *)
(*                                                                         *)
(* An action is one run of the event loop: a tool call from its dispatch   *)
(* to its first await on the engine, or the continuation that the engine's *)
(* answer releases, up to the next such await or to the tool's response.   *)
(***************************************************************************)
\* Tool calls in flight at the same time.
NumCalls == 2

\* The limit each of the client's allocators is built with.  The constructor
\* passes MaxNodes, MaxBuffers, MaxAudioBuses and MaxControlBuses; the
\* interleavings are explored with this smaller limit.
MaxIds == 2

\* The limits the client's constructor passes to its allocators.
MaxNodes == 1024

MaxBuffers == 1024

MaxAudioBuses == 128

MaxControlBuses == 16384

\* A client that builds all four allocators with the buffer limit.
ClientLimitUniform(k) == MaxBuffers

ClientLimit(k) ==
  CASE k = "node" -> MaxNodes
    [] k = "buffer" -> MaxBuffers
    [] k = "audioBus" -> MaxAudioBuses
    [] k = "controlBus" -> MaxControlBuses

Callers == 1..NumCalls

AllocatingTools == {"create_synth", "create_group", "load_audio_file", "record_jack_input"}

FreeingTools == {"free_synth", "free_group", "free_buffer"}

Tools == AllocatingTools \cup FreeingTools \cup {"boot_server", "quit_server"}

\* getNodeAllocator() or getBufferAllocator(), as the tool's handler calls it.
AllocatorOf(t) ==
  IF t \in {"create_synth", "create_group", "free_synth", "free_group"} THEN "node" ELSE "buffer"

StartIdOf(k) ==
  CASE k = "node" -> NodeStartId
    [] k = "audioBus" -> NumOutputBusChannels
    [] OTHER -> 0

\* An allocator as its constructor leaves it.
NewAllocator(k, n) ==
  [maxCount |-> n, nextId |-> StartIdOf(k), freeIds |-> <<>>, allocatedIds |-> {}]

\* The limit test of alloc() on the allocator a of kind k.
LimitReached(k, a) ==
  IF k \in {"node", "audioBus"}
    THEN a.nextId > StartIdOf(k) + a.maxCount - 1
    ELSE a.nextId >= a.maxCount

\* alloc(): the id returned ({} for null) and the allocator afterwards.
AllocOf(k, a) ==
  IF Len(a.freeIds) > 0
    THEN [id |-> {Head(a.freeIds)},
          a |-> [a EXCEPT !.freeIds = Tail(@), !.allocatedIds = @ \cup {Head(a.freeIds)}]]
    ELSE IF LimitReached(k, a)
      THEN [id |-> {}, a |-> a]
      ELSE [id |-> {a.nextId},
            a |-> [a EXCEPT !.nextId = @ + 1, !.allocatedIds = @ \cup {a.nextId}]]

\* free(id)
FreeOf(a, id) ==
  IF id \in a.allocatedIds
    THEN [a EXCEPT !.allocatedIds = @ \ {id}, !.freeIds = Append(@, id)]
    ELSE a

\* reset()
ResetOf(k, a) ==
  [a EXCEPT !.nextId = StartIdOf(k), !.freeIds = <<>>, !.allocatedIds = {}]

\* The arguments a tool is called with, as far as its handler looks at them:
\* whether record_jack_input's duration, ports and channel count pass its
\* validation, and the id a freeing tool is given.
ArgsOf(t) ==
  CASE t = "record_jack_input" -> {"valid", "invalid"}
    [] t \in FreeingTools -> StartIdOf(AllocatorOf(t))..(StartIdOf(AllocatorOf(t)) + MaxIds - 1)
    [] OTHER -> {"none"}

\* A call slot no tool call occupies.
IdleCall ==
  [tool |-> "none", arg |-> "none", pc |-> "idle", op |-> "none",
   id |-> {}, sent |-> 0, response |-> "none"]

\* The client's fields, as one value the operations below transform.
Client ==
  [connectionState |-> connectionState, scServer |-> scServer, allocators |-> allocators]

\* createErrorResponse / createSuccessResponse: the handler returns.
Fail(r) == [r EXCEPT !.pc = "done", !.response = "error"]

Succeed(r) == [r EXCEPT !.pc = "done", !.response = "success"]

resetAllocators(cl) ==
  [cl EXCEPT !.allocators = [k \in Kinds |-> ResetOf(k, cl.allocators[k])]]

\* getStatus() and sendOscMessageWithSync() after their connection check:
\* without a server handle they throw, with one they hand the message to
\* the engine and wait for its reply.
Issue(cl, r) ==
  IF cl.scServer = "null"
    THEN [cl |-> cl, call |-> Fail(r)]
    ELSE [cl |-> cl, call |-> [r EXCEPT !.pc = "reply", !.sent = @ + 1]]

\* getStatus() (op "status") or sendOscMessageWithSync() (op "send") from
\* their first line: unless the state is 'connected' they call connect(),
\* which sets 'connecting' and waits for the boot.
Request(cl, r, op) ==
  IF cl.connectionState # "connected"
    THEN [cl |-> [cl EXCEPT !.connectionState = "connecting"],
          call |-> [r EXCEPT !.pc = "boot", !.op = op]]
    ELSE Issue(cl, [r EXCEPT !.op = op])

\* disconnect() without its early return and without its test of the
\* handle: quit() on a null handle throws into the catch block.
DisconnectUnguarded(cl, r) ==
  IF cl.scServer # "null"
    THEN [cl |-> cl, call |-> [r EXCEPT !.pc = "quit", !.op = "quit"]]
    ELSE [cl |-> resetAllocators([cl EXCEPT !.connectionState = "error"]),
          call |-> Fail([r EXCEPT !.op = "quit"])]

\* disconnect() up to its await of quit().
disconnect(cl, r) ==
  IF cl.connectionState = "disconnected"
    THEN [cl |-> cl, call |-> Succeed(r)]
    ELSE IF cl.scServer # "null"
      THEN [cl |-> cl, call |-> [r EXCEPT !.pc = "quit", !.op = "quit"]]
      ELSE [cl |-> resetAllocators([cl EXCEPT !.connectionState = "disconnected"]),
            call |-> Succeed([r EXCEPT !.op = "reset"])]

\* A handler that goes on to the engine although alloc() returned null.
AllocateIgnoresNull(cl, r, op) ==
  LET k == AllocatorOf(r.tool)
      res == AllocOf(k, cl.allocators[k])
  IN  Request([cl EXCEPT !.allocators[k] = res.a], [r EXCEPT !.id = res.id], op)

\* The allocating handlers: alloc(), the error response when it returns
\* null, otherwise the first request to the engine.
Allocate(cl, r, op) ==
  LET k == AllocatorOf(r.tool)
      res == AllocOf(k, cl.allocators[k])
  IN  IF res.id = {}
        THEN [cl |-> cl, call |-> Fail(r)]
        ELSE Request([cl EXCEPT !.allocators[k] = res.a], [r EXCEPT !.id = res.id], op)

\* Handlers whose freeing tools release the id before the command is sent.
HandlerFreesFirst(cl, r) ==
  CASE r.tool \in {"create_synth", "create_group", "load_audio_file"} ->
         Allocate(cl, r, "send")
    [] r.tool = "record_jack_input" ->
         IF r.arg = "invalid" THEN [cl |-> cl, call |-> Fail(r)]
                              ELSE Allocate(cl, r, "status")
    [] r.tool \in FreeingTools ->
         Request([cl EXCEPT !.allocators[AllocatorOf(r.tool)] = FreeOf(@, r.arg)], r, "send")
    [] r.tool = "boot_server" -> Request(cl, r, "status")
    [] r.tool = "quit_server" -> disconnect(cl, r)

\* A tool's handler from its dispatch to its first wait or its response.
Handler(cl, r) ==
  CASE r.tool \in {"create_synth", "create_group", "load_audio_file"} ->
         Allocate(cl, r, "send")
    [] r.tool = "record_jack_input" ->
         IF r.arg = "invalid" THEN [cl |-> cl, call |-> Fail(r)]
                              ELSE Allocate(cl, r, "status")
    [] r.tool \in FreeingTools -> Request(cl, r, "send")
    [] r.tool = "boot_server" -> Request(cl, r, "status")
    [] r.tool = "quit_server" -> disconnect(cl, r)

\* The handler after the engine's reply to its request.
Continue(cl, r) ==
  CASE r.tool = "record_jack_input" /\ r.op = "status" -> Request(cl, r, "send")
    [] r.tool = "record_jack_input" /\ r.op = "send" ->
         [cl |-> cl, call |-> [r EXCEPT !.pc = "sclang", !.op = "sclang"]]
    [] r.tool \in FreeingTools ->
         [cl |-> [cl EXCEPT !.allocators[AllocatorOf(r.tool)] = FreeOf(@, r.arg)],
          call |-> Succeed(r)]
    [] OTHER -> [cl |-> cl, call |-> Succeed(r)]

\* disconnect() whose catch block does not reset the allocators.
QuitSettledNoResetOnError(cl, r, ok) ==
  IF ok
    THEN [cl |-> resetAllocators([cl EXCEPT !.scServer = "null",
                                            !.connectionState = "disconnected"]),
          call |-> Succeed(r)]
    ELSE [cl |-> [cl EXCEPT !.connectionState = "error"], call |-> Fail(r)]

\* disconnect() that clears the handle after quit() and leaves the state.
QuitSettledKeepsState(cl, r, ok) ==
  IF ok
    THEN [cl |-> resetAllocators([cl EXCEPT !.scServer = "null"]),
          call |-> Succeed(r)]
    ELSE [cl |-> resetAllocators([cl EXCEPT !.connectionState = "error"]),
          call |-> Fail(r)]

\* disconnect() after its await of quit(): the rest of the try block, or the
\* catch block.
QuitSettled(cl, r, ok) ==
  IF ok
    THEN [cl |-> resetAllocators([cl EXCEPT !.scServer = "null",
                                            !.connectionState = "disconnected"]),
          call |-> Succeed(r)]
    ELSE [cl |-> resetAllocators([cl EXCEPT !.connectionState = "error"]),
          call |-> Fail(r)]

\* connect() whose catch block rethrows without setting the state.
BootedKeepsState(cl, r, ok) ==
  IF ok
    THEN Issue([cl EXCEPT !.scServer = "server", !.connectionState = "connected"], r)
    ELSE [cl |-> cl, call |-> Fail(r)]

\* connect() after its await of the boot, and the request that waited for it.
Booted(cl, r, ok) ==
  IF ok
    THEN Issue([cl EXCEPT !.scServer = "server", !.connectionState = "connected"], r)
    ELSE [cl |-> [cl EXCEPT !.connectionState = "error"], call |-> Fail(r)]

ClientInit ==
  /\ connectionState = "disconnected"
  /\ scServer = "null"
  /\ allocators = [k \in Kinds |-> NewAllocator(k, MaxIds)]
  /\ calls = [c \in Callers |-> IdleCall]

\* The step of call c leaves the client and the call as x says.
Becomes(c, x) ==
  /\ connectionState' = x.cl.connectionState
  /\ scServer' = x.cl.scServer
  /\ allocators' = x.cl.allocators
  /\ calls' = [calls EXCEPT ![c] = x.call]
  /\ UNCHANGED <<allocVars, execVars, batch, scan, sclangClient, scClient>>

\* The server dispatches a tool call to its handler.
ToolCall(c) ==
  /\ calls[c].pc = "idle"
  /\ \E t \in Tools : \E a \in ArgsOf(t) :
       Becomes(c, Handler(Client, [IdleCall EXCEPT !.tool = t, !.arg = a]))

\* sc.server.boot() resolves or rejects.
BootSettles(c) ==
  /\ calls[c].pc = "boot"
  /\ \E ok \in BOOLEAN : Becomes(c, Booted(Client, calls[c], ok))

\* The engine's reply to a status query or to a command and its sync
\* arrives, or the request fails.
Reply(c) ==
  /\ calls[c].pc = "reply"
  /\ \E ok \in BOOLEAN :
       Becomes(c, IF ok THEN Continue(Client, calls[c])
                        ELSE [cl |-> Client, call |-> Fail(calls[c])])

\* scServer.quit() resolves or rejects.
QuitSettles(c) ==
  /\ calls[c].pc = "quit"
  /\ \E ok \in BOOLEAN : Becomes(c, QuitSettled(Client, calls[c], ok))

\* The sclang run that starts the recording ends.
SclangSettles(c) ==
  /\ calls[c].pc = "sclang"
  /\ \E ok \in BOOLEAN :
       Becomes(c, [cl |-> Client,
                   call |-> IF ok THEN Succeed(calls[c]) ELSE Fail(calls[c])])

\* The response is delivered; the slot takes the next call.
Return(c) ==
  /\ calls[c].pc = "done"
  /\ calls' = [calls EXCEPT ![c] = IdleCall]
  /\ UNCHANGED <<connectionState, scServer, allocators, allocVars, execVars, batch, scan,
               sclangClient, scClient>>

ClientNext ==
  \/ \E c \in Callers : ToolCall(c)
  \/ \E c \in Callers : BootSettles(c)
  \/ \E c \in Callers : Reply(c)
  \/ \E c \in Callers : QuitSettles(c)
  \/ \E c \in Callers : SclangSettles(c)
  \/ \E c \in Callers : Return(c)

(***************************************************************************)
(* PART IV - compileSynthDefsBatch (sclangClient.ts)                       *)
(*                                                                         *)
(* One call: mkdtemp, one executeSclang run for all the items, one         *)
(* readFile per item, the removal of the temporary directory.  Each await  *)
(* on the file system or on the run is a step with the outcomes the        *)
(* runtime can report.                                                     *)
(***************************************************************************)
\* Largest number of items in a batch.
MaxItems == 2

DefNames == {"a", "b"}

\* The inputs: every list of at most MaxItems names.
Batches == UNION {[1..n -> DefNames] : n \in 0..MaxItems}

\* The error texts the results can carry.
RunErrors == {"Batch SynthDef compilation failed", "sclang exited with code 1"}

ReadError == "Failed to read compiled SynthDef"

RmError == "rm failed"

BatchIdle ==
  [pc |-> "idle", synthDefs |-> <<>>, tmpDir |-> FALSE, artifacts |-> {},
   compiled |-> FALSE, read |-> <<>>, error |-> "", results |-> <<>>,
   settled |-> "pending"]

\* The entry pushed for the item name after its readFile.
ReadResult(name, ok) ==
  IF ok THEN [name |-> name, success |-> TRUE, error |-> ""]
        ELSE [name |-> name, success |-> FALSE, error |-> ReadError]

\* The entries the catch block pushes: one failure per item, with the
\* message of the error caught.
FailedResults(names, e) ==
  [k \in 1..Len(names) |-> [name |-> names[k], success |-> FALSE, error |-> e]]

BatchFrame == UNCHANGED <<allocVars, execVars, clientVars, scan, sclangClient, scClient>>

\* compileSynthDefsBatch(synthDefs) up to its await of mkdtemp.
BatchCall ==
  /\ batch.pc = "idle"
  /\ \E names \in Batches :
       batch' = [batch EXCEPT !.pc = "mkdtemp", !.synthDefs = names]
  /\ BatchFrame

\* mkdtemp resolves and executeSclang is called, or it rejects: the await
\* stands before the try block, so the call rejects.
MkdtempSettles ==
  /\ batch.pc = "mkdtemp"
  /\ \/ batch' = [batch EXCEPT !.pc = "run", !.tmpDir = TRUE]
     \/ batch' = [batch EXCEPT !.pc = "done", !.settled = "rejected"]
  /\ BatchFrame

\* After the last readFile the loop ends and the directory is removed.
AfterRead(b) ==
  IF Len(b.read) = Len(b.synthDefs) THEN [b EXCEPT !.pc = "rm"] ELSE [b EXCEPT !.pc = "read"]

\* The run ends.  With the marker in its output the items are read one by
\* one; without it, or when the run rejects, the error is thrown to the
\* catch block.  written is the set of artifacts the interpreter produced.
RunSettles ==
  /\ batch.pc = "run"
  /\ \E written \in SUBSET DefNames :
       \/ batch' = AfterRead([batch EXCEPT !.artifacts = written, !.compiled = TRUE])
       \/ \E e \in RunErrors :
            batch' = [batch EXCEPT !.pc = "rmCatch", !.artifacts = written, !.error = e]
  /\ BatchFrame

\* readFile of the next item's artifact resolves or rejects; a missing
\* artifact cannot be read.
ReadSettles ==
  /\ batch.pc = "read"
  /\ LET name == batch.synthDefs[Len(batch.read) + 1]
     IN  \E ok \in BOOLEAN :
           /\ ok => name \in batch.artifacts
           /\ batch' = AfterRead([batch EXCEPT !.read = Append(@, ok),
                                               !.results = Append(@, ReadResult(name, ok))])
  /\ BatchFrame

\* The rm of the try block resolves and the results are returned, or it
\* rejects and the error is thrown to the catch block.
RmSettles ==
  /\ batch.pc = "rm"
  /\ \/ batch' = [batch EXCEPT !.pc = "done", !.tmpDir = FALSE, !.artifacts = {},
                               !.settled = "returned"]
     \/ batch' = [batch EXCEPT !.pc = "rmCatch", !.error = RmError]
  /\ BatchFrame

\* The catch block: rm with its error ignored, one failed entry per item
\* pushed onto results, results returned.
CatchSettles ==
  /\ batch.pc = "rmCatch"
  /\ \E removed \in BOOLEAN :
       batch' = [batch EXCEPT !.pc = "done",
                              !.tmpDir = IF removed THEN FALSE ELSE @,
                              !.artifacts = IF removed THEN {} ELSE @,
                              !.results = @ \o FailedResults(batch.synthDefs, batch.error),
                              !.settled = "returned"]
  /\ BatchFrame

BatchNext ==
  \/ BatchCall
  \/ MkdtempSettles
  \/ RunSettles
  \/ ReadSettles
  \/ RmSettles
  \/ CatchSettles

(***************************************************************************)
(* PART V - discoverSuperCollider and checkPort (discovery.ts)             *)
(*                                                                         *)
(* A port is a JavaScript number: n when whole, n + 1/2 otherwise.         *)
(***************************************************************************)
\* Longest list of ports scanned.
MaxPorts == 2

Whole(n) == [n |-> n, whole |-> TRUE]

Half(n) == [n |-> n, whole |-> FALSE]

\* port < x and port > x for a whole number x.
Lt(p, x) == p.n < x

Gt(p, x) == IF p.whole THEN p.n > x ELSE p.n >= x

PortValues == {Whole(-1), Whole(57110), Whole(57120), Whole(65536), Half(57110)}

PortLists == UNION {[1..n -> PortValues] : n \in 0..MaxPorts}

\* checkPort's range test.
InvalidPort(p) == Lt(p, 0) \/ Gt(p, 65535)

\* The runtime's own test in createConnection: a whole number in 0..65535.
\* Any other port makes it throw.
LegalPort(p) == p.whole /\ p.n >= 0 /\ p.n <= 65535

ScanIdle ==
  [pc |-> "idle", portsToScan |-> <<>>, k |-> 0, socket |-> "none", timer |-> FALSE,
   resolved |-> FALSE, promise |-> "none", settledBy |-> <<>>, opened |-> <<>>, result |-> "pending"]

ScanFrame == UNCHANGED <<allocVars, execVars, clientVars, batch, sclangClient, scClient>>

\* The for loop from port number k on, as far as it runs without waiting:
\* ports that fail the range test are skipped, the first other port gets a
\* socket and a timer, and the end of the list returns null.
RECURSIVE Probe(_, _)
Probe(s, k) ==
  IF k > Len(s.portsToScan)
    THEN [s EXCEPT !.pc = "done", !.k = k, !.result = "null"]
    ELSE IF InvalidPort(s.portsToScan[k])
      THEN Probe([s EXCEPT !.settledBy = Append(@, "invalid")], k + 1)
      ELSE IF ~LegalPort(s.portsToScan[k])
        THEN [s EXCEPT !.pc = "done", !.k = k, !.result = "rejected",
                       !.promise = "rejected", !.settledBy = Append(@, "threw")]
        ELSE [s EXCEPT !.pc = "probing", !.k = k, !.socket = "connecting",
                       !.timer = TRUE, !.resolved = FALSE, !.promise = "pending",
                       !.opened = Append(@, k)]

\* discoverSuperCollider(ports, options) up to its first wait.
Discover ==
  /\ scan.pc = "idle"
  /\ \E ports \in PortLists : scan' = Probe([scan EXCEPT !.portsToScan = ports], 1)
  /\ ScanFrame

\* cleanup() of checkPort
ProbeCleanup(s) ==
  IF ~s.resolved THEN [s EXCEPT !.resolved = TRUE, !.socket = "destroyed"] ELSE s

\* resolve(open) of the probe's promise: only the first call settles it, and
\* then the loop goes on.
ProbeResolve(s, by, open) ==
  IF s.promise # "pending"
    THEN s
    ELSE LET t == [s EXCEPT !.promise = "settled", !.settledBy = Append(@, by)]
         IN  IF open
               THEN [t EXCEPT !.pc = "done", !.result = ToString(s.portsToScan[s.k].n)]
               ELSE Probe(t, s.k + 1)

\* The socket's 'connect' event.
ConnectEvent ==
  /\ scan.socket = "connecting"
  /\ scan' = ProbeResolve(ProbeCleanup([scan EXCEPT !.timer = FALSE]), "connect", TRUE)
  /\ ScanFrame

\* The socket's 'error' event.
SocketError ==
  /\ scan.socket = "connecting"
  /\ scan' = ProbeResolve(ProbeCleanup([scan EXCEPT !.timer = FALSE]), "error", FALSE)
  /\ ScanFrame

\* The probe's timer fires.
ProbeTimeout ==
  /\ scan.timer
  /\ scan' = ProbeResolve(ProbeCleanup([scan EXCEPT !.timer = FALSE]), "timeout", FALSE)
  /\ ScanFrame

ScanNext ==
  \/ Discover
  \/ ConnectEvent
  \/ SocketError
  \/ ProbeTimeout

\* The state of PARTS III to V before any of their operations has run.
(***************************************************************************)
(* PART VI - SclangClient (sclangClient.ts)                                *)
(*                                                                         *)
(* The persistent interpreter connection: state, lang, the option          *)
(* verifyJITlib, and the connect(), disconnect() and pattern calls in      *)
(* flight.  Each await (the boot, the interpret of the verification, the   *)
(* quit, the interpret of a pattern operation) ends a step; what the       *)
(* awaited promise settles with is the next step's input.                  *)
(***************************************************************************)
LangCallers == 1..NumCalls

\* A call slot no method call occupies.  awaited is what the promise the call
\* waited for last settled with.
IdleOp ==
  [method |-> "none", pc |-> "idle", awaited |-> "none", outcome |-> "none", code |-> ""]

\* The client as its constructor leaves it (autoConnect off).
NewSclangClient(v) ==
  [state |-> "disconnected", lang |-> "null", verifyJITlib |-> v,
   emitted |-> <<>>, ops |-> [j \in LangCallers |-> IdleOp]]

\* isConnected()
isConnected(s) == s.state = "connected" /\ s.lang # "null"

\* emit(event)
emit(s, event) == [s EXCEPT !.emitted = Append(@, event)]

\* setState() that emits 'stateChange' on every call.
setStateAlwaysEmits(s, newState) ==
  emit([s EXCEPT !.state = newState], "stateChange")

\* setState(newState)
setState(s, newState) ==
  IF s.state # newState
    THEN emit([s EXCEPT !.state = newState], "stateChange")
    ELSE s

\* The promise of the call in slot j settles.
Resolved(s, j) == [s EXCEPT !.ops[j].pc = "done", !.ops[j].outcome = "resolved"]

Rejected(s, j, code) ==
  [s EXCEPT !.ops[j].pc = "done", !.ops[j].outcome = "rejected", !.ops[j].code = code]

\* A new macrotask: nothing emitted yet; slot j takes the method m.
Enter(j, m) ==
  [sclangClient EXCEPT !.emitted = <<>>, !.ops[j].method = m]

\* The continuation of the call in slot j runs, with what its awaited
\* promise settled with: nothing emitted yet.
Resume(j, res) == [sclangClient EXCEPT !.emitted = <<>>, !.ops[j].awaited = res]

SclangFrame == UNCHANGED <<allocVars, execVars, clientVars, batch, scan, scClient>>

\* connect() up to its await of the boot.
SclangConnect(j) ==
  /\ sclangClient.ops[j].pc = "idle"
  /\ LET s == Enter(j, "connect")
     IN sclangClient' =
          IF s.state = "connecting" THEN Rejected(s, j, "SCLANG_NOT_CONNECTED")
          ELSE IF s.state = "connected" THEN Resolved(s, j)
          ELSE [setState(s, "connecting") EXCEPT !.ops[j].pc = "boot"]
  /\ SclangFrame

\* sc.lang.boot() settles: the handle is stored, the state set, and the
\* verification started or 'connected' emitted; or the catch block.
SclangBootSettles(j) ==
  /\ sclangClient.ops[j].pc = "boot"
  /\ \E res \in {"ok", "ENOENT", "failed"} :
       sclangClient' =
         IF res = "ok"
           THEN LET s == setState([Resume(j, res) EXCEPT !.lang = "lang"], "connected")
                IN IF s.verifyJITlib
                     THEN [s EXCEPT !.ops[j].pc = "verify"]
                     ELSE Resolved(emit(s, "connected"), j)
           ELSE Rejected(setState(Resume(j, res), "error"), j,
                         IF res = "ENOENT" THEN "SCLANG_NOT_FOUND"
                                           ELSE "SCLANG_NOT_CONNECTED")
  /\ SclangFrame

\* The interpret() of verifyJITlib settles: result === true, or anything
\* else (a rejection makes verifyJITlib return false).
VerifySettles(j) ==
  /\ sclangClient.ops[j].pc = "verify"
  /\ \E jitlibLoaded \in BOOLEAN :
       sclangClient' =
         IF jitlibLoaded
           THEN Resolved(emit(Resume(j, "true"), "connected"), j)
           ELSE Rejected(setState(setState(Resume(j, "false"), "error"), "error"), j,
                         "SCLANG_JITLIB_NOT_LOADED")
  /\ SclangFrame

\* disconnect() up to its await of quit().
SclangDisconnect(j) ==
  /\ sclangClient.ops[j].pc = "idle"
  /\ LET s == Enter(j, "disconnect")
     IN sclangClient' =
          IF s.lang = "null"
            THEN Resolved(setState(s, "disconnected"), j)
            ELSE [s EXCEPT !.ops[j].pc = "quit"]
  /\ SclangFrame

\* lang.quit() settles: the rest of the try block, or the catch block.
SclangQuitSettles(j) ==
  /\ sclangClient.ops[j].pc = "quit"
  /\ \E ok \in BOOLEAN :
       LET s == setState([Resume(j, IF ok THEN "ok" ELSE "failed") EXCEPT !.lang = "null"],
                         "disconnected")
       IN sclangClient' = Resolved(IF ok THEN emit(s, "disconnected") ELSE s, j)
  /\ SclangFrame

\* A pattern operation (createPdef, getPdefStatus, ...) up to the await in
\* interpret(): refused unless isConnected().
PatternCall(j) ==
  /\ sclangClient.ops[j].pc = "idle"
  /\ LET s == Enter(j, "pattern")
     IN sclangClient' =
          IF ~isConnected(s) THEN Rejected(s, j, "SCLANG_NOT_CONNECTED")
                             ELSE [s EXCEPT !.ops[j].pc = "interpret"]
  /\ SclangFrame

\* lang.interpret() of a pattern operation settles.
InterpretSettles(j) ==
  /\ sclangClient.ops[j].pc = "interpret"
  /\ \E ok \in BOOLEAN :
       sclangClient' = IF ok THEN Resolved(Resume(j, "ok"), j)
                             ELSE Rejected(Resume(j, "failed"), j, "SCLANG_EXECUTION_ERROR")
  /\ SclangFrame

\* The caller has its answer; the slot takes the next call.
SclangReturn(j) ==
  /\ sclangClient.ops[j].pc = "done"
  /\ sclangClient' = [sclangClient EXCEPT !.emitted = <<>>, !.ops[j] = IdleOp]
  /\ SclangFrame

SclangNext ==
  \/ \E j \in LangCallers : SclangConnect(j)
  \/ \E j \in LangCallers : SclangBootSettles(j)
  \/ \E j \in LangCallers : VerifySettles(j)
  \/ \E j \in LangCallers : SclangDisconnect(j)
  \/ \E j \in LangCallers : SclangQuitSettles(j)
  \/ \E j \in LangCallers : PatternCall(j)
  \/ \E j \in LangCallers : InterpretSettles(j)
  \/ \E j \in LangCallers : SclangReturn(j)

(***************************************************************************)
(* PART VII - SuperColliderClient's methods, with the identity of the      *)
(* server handles and the sync ids (client.ts)                             *)
(*                                                                         *)
(* connect(), disconnect(), getStatus(), sendOscMessage(), syncServer()    *)
(* and sendOscMessageWithSync() called directly, overlapping.  Every boot  *)
(* that resolves returns a new handle, numbered from 1; 0 stands for null. *)
(***************************************************************************)
\* Largest number of boots started and of sync ids taken.
MaxBoots == 2

MaxSyncs == 2

MethodCallers == 1..NumCalls

Methods ==
  {"connect", "disconnect", "getStatus", "sendOscMessage", "syncServer",
   "sendOscMessageWithSync"}

\* A call slot no method call occupies.  doing is the client method the call
\* is in, syncId the id its syncServer() took (-1: none).
IdleMethod ==
  [method |-> "none", doing |-> "none", pc |-> "idle", outcome |-> "none",
   syncId |-> -1]

\* The client as its constructor leaves it, with the history of its
\* handles: how many boots resolved, which handles quit() was called on, and
\* the ids passed to msg.sync().
NewScClient ==
  [connectionState |-> "disconnected", scServer |-> 0, nextSyncId |-> 0,
   booted |-> 0, quitCalled |-> {}, synced |-> <<>>,
   methods |-> [j \in MethodCallers |-> IdleMethod]]

Settle(s, j, outcome) == [s EXCEPT !.methods[j].pc = "done", !.methods[j].outcome = outcome]

\* The boots in flight.
Booting(s) == {j \in MethodCallers : s.methods[j].pc = "boot"}

\* The bounds of the exploration: boots started, sync ids taken.
WithinBounds(s) ==
  /\ s.booted + Cardinality(Booting(s)) <= MaxBoots
  /\ s.nextSyncId <= MaxSyncs

\* syncServer() that takes its id without consuming it.
syncServerKeepsCounter(s, j) ==
  IF s.scServer = 0
    THEN Settle(s, j, "rejected")
    ELSE [s EXCEPT !.synced = Append(@, s.nextSyncId),
                   !.methods[j].syncId = s.nextSyncId,
                   !.methods[j].pc = "reply"]

\* syncServer() from its test of the handle to its await: the next sync id
\* is taken and the counter incremented before the message is sent.
syncServer(s, j) ==
  IF s.scServer = 0
    THEN Settle(s, j, "rejected")
    ELSE [s EXCEPT !.nextSyncId = @ + 1,
                   !.synced = Append(@, s.nextSyncId),
                   !.methods[j].syncId = s.nextSyncId,
                   !.methods[j].pc = "reply"]

\* getStatus() and sendOscMessage() from their test of the handle to their
\* await of the engine.
getStatus(s, j) ==
  IF s.scServer = 0 THEN Settle(s, j, "rejected")
                    ELSE [s EXCEPT !.methods[j].pc = "reply"]

sendOscMessage(s, j) ==
  IF s.scServer = 0 THEN Settle(s, j, "rejected")
                    ELSE [s EXCEPT !.methods[j].pc = "reply"]

\* The method the call j is in goes on past its connection check.
Proceed(s, j) ==
  CASE s.methods[j].doing = "connect" -> Settle(s, j, "resolved")
    [] s.methods[j].doing = "getStatus" -> getStatus(s, j)
    [] s.methods[j].doing = "sendOscMessage" -> sendOscMessage(s, j)
    [] s.methods[j].doing = "syncServer" -> syncServer(s, j)

\* connect(), called directly or by the auto-connect of a method: in
\* 'connected' nothing is booted, in every other state a boot is started.
connect(s, j) ==
  IF s.connectionState = "connected"
    THEN Proceed(s, j)
    ELSE [s EXCEPT !.connectionState = "connecting", !.methods[j].pc = "boot"]

\* disconnect() up to its await of quit().
scDisconnect(s, j) ==
  IF s.connectionState = "disconnected"
    THEN Settle(s, j, "resolved")
    ELSE IF s.scServer # 0
      THEN [s EXCEPT !.quitCalled = @ \cup {s.scServer}, !.methods[j].pc = "quit"]
      ELSE Settle([s EXCEPT !.connectionState = "disconnected"], j, "resolved")

\* The client method a call of m starts with.
FirstOf(m) == IF m = "sendOscMessageWithSync" THEN "sendOscMessage" ELSE m

ScFrame == UNCHANGED <<allocVars, execVars, clientVars, batch, scan, sclangClient>>

\* A method of the client is called.
MethodCall(j) ==
  /\ scClient.methods[j].pc = "idle"
  /\ \E m \in Methods :
       LET s == [scClient EXCEPT !.methods[j].method = m,
                                 !.methods[j].doing = FirstOf(m)]
       IN scClient' = IF m = "disconnect" THEN scDisconnect(s, j) ELSE connect(s, j)
  /\ WithinBounds(scClient')
  /\ ScFrame

\* sc.server.boot() settles: the new handle is stored and the method goes
\* on, or the catch block of connect().
ScBootSettles(j) ==
  /\ scClient.methods[j].pc = "boot"
  /\ \E ok \in BOOLEAN :
       scClient' =
         IF ok
           THEN Proceed([scClient EXCEPT !.booted = @ + 1,
                                         !.scServer = scClient.booted + 1,
                                         !.connectionState = "connected"], j)
           ELSE Settle([scClient EXCEPT !.connectionState = "error"], j, "rejected")
  /\ WithinBounds(scClient')
  /\ ScFrame

\* The engine's reply to the status query, the message or the sync arrives,
\* or the request fails.  sendOscMessageWithSync() goes on to syncServer().
ScReply(j) ==
  /\ scClient.methods[j].pc = "reply"
  /\ \E ok \in BOOLEAN :
       scClient' =
         IF ~ok THEN Settle(scClient, j, "rejected")
         ELSE IF scClient.methods[j].method = "sendOscMessageWithSync"
                   /\ scClient.methods[j].doing = "sendOscMessage"
           THEN connect([scClient EXCEPT !.methods[j].doing = "syncServer"], j)
           ELSE Settle(scClient, j, "resolved")
  /\ WithinBounds(scClient')
  /\ ScFrame

\* scServer.quit() settles: the rest of the try block, or the catch block.
ScQuitSettles(j) ==
  /\ scClient.methods[j].pc = "quit"
  /\ \E ok \in BOOLEAN :
       scClient' =
         IF ok
           THEN Settle([scClient EXCEPT !.scServer = 0,
                                        !.connectionState = "disconnected"], j, "resolved")
           ELSE Settle([scClient EXCEPT !.connectionState = "error"], j, "rejected")
  /\ ScFrame

\* The caller has its answer; the slot takes the next call.
ScReturn(j) ==
  /\ scClient.methods[j].pc = "done"
  /\ scClient' = [scClient EXCEPT !.methods[j] = IdleMethod]
  /\ ScFrame

ScNext ==
  \/ \E j \in MethodCallers : MethodCall(j)
  \/ \E j \in MethodCallers : ScBootSettles(j)
  \/ \E j \in MethodCallers : ScReply(j)
  \/ \E j \in MethodCallers : ScQuitSettles(j)
  \/ \E j \in MethodCallers : ScReturn(j)

\* Everything outside the allocator and the executor, constructed; the
\* SclangClient with verifyJITlib as given.
RestInitWith(v) ==
  /\ ClientInit
  /\ batch = BatchIdle
  /\ scan = ScanIdle
  /\ sclangClient = NewSclangClient(v)
  /\ scClient = NewScClient

\* The SclangClient with its default options: verifyJITlib on.
RestInit == RestInitWith(TRUE)

(***************************************************************************)
(* Specifications: one allocator instance; one executeSclang invocation    *)
(* with the host's signals; all the invocations together; the client's     *)
(* allocators at full size; the client under concurrent tool calls; one    *)
(* batch compilation; one discovery scan.                                  *)
(***************************************************************************)
InitAlloc == AllocInit /\ ExecStart(TRUE) /\ RestInit

SpecAlloc == InitAlloc /\ [][AllocNext]_vars

\* A caller that uses a fresh allocator up: alloc() until it returns null,
\* then one free(id), then alloc() again.
FreshRun ==
  \/ /\ lastOp = "new" \/ (lastOp = "alloc" /\ lastRet # {})
     /\ alloc
  \/ /\ lastOp = "alloc" /\ lastRet = {}
     /\ Free
  \/ /\ lastOp = "free"
     /\ alloc

SpecFresh == InitAlloc /\ [][FreshRun]_vars

InitExec == ExecInit /\ AllocConstructed("node", 0) /\ RestInit

NextOne == ExecNext({1})

SpecOne == InitExec /\ [][NextOne]_vars

NextExec == ExecNext(Invs)

SpecExec == InitExec /\ [][NextExec]_vars

\* One invocation whose worker writes to its output streams.
NextIO == ExecNext({1}) \/ WorkerWrites(1) \/ DataEvent(1)

SpecIO == InitExec /\ [][NextIO]_vars

\* Everything constructed, nothing called yet.
InitIdle == AllocConstructed("node", 0) /\ ExecStart(TRUE) /\ RestInit

\* An allocator as the client builds it, and a caller that allocates until
\* alloc() returns null.
InitLimits ==
  /\ \E k \in Kinds : AllocConstructed(k, ClientLimit(k))
  /\ ExecStart(TRUE)
  /\ RestInit

AllocRun == (lastOp = "new" \/ lastRet # {}) /\ alloc

SpecLimits == InitLimits /\ [][AllocRun]_vars

\* The client and the tool calls that use it.
SpecClient == InitIdle /\ [][ClientNext]_vars

\* One compileSynthDefsBatch call.
SpecBatch == InitIdle /\ [][BatchNext]_vars

\* One discoverSuperCollider call.
SpecScan == InitIdle /\ [][ScanNext]_vars

\* A SclangClient, with verifyJITlib on or off, and its callers.
InitSclang ==
  /\ AllocConstructed("node", 0)
  /\ ExecStart(TRUE)
  /\ \E v \in BOOLEAN : RestInitWith(v)

SpecSclang == InitSclang /\ [][SclangNext]_vars

\* A SuperColliderClient and the callers of its methods.
SpecMethods == InitIdle /\ [][ScNext]_vars

----------------------------------------------------------------------------
\* C1: alloc() never returns an id that was allocated just before the call;
\* an id comes back only after free(id) or reset() took it out of allocated.
C1_AllocNeverReturnsLiveId ==
  [][\A id \in lastRet' : lastOp' = "alloc" => ~isAllocated(id)]_vars

\* C1 witness: an id handed out, freed and handed out again.
C1_Witness ==
  /\ lastOp = "alloc"
  /\ lastRet # {}
  /\ \A id \in lastRet : id < nextId - 1 /\ isAllocated(id)
  /\ freeIds = <<>>

\* C2: allocated and free are disjoint, both lie in the range, the watermark
\* never exceeds the range end, and allocated \cup free is exactly the ids
\* from startId up to the watermark.
C2_AllocatorInvariant ==
  /\ allocated \cap SeqToSet(freeIds) = {}
  /\ Cardinality(SeqToSet(freeIds)) = Len(freeIds)
  /\ \A id \in allocated \cup SeqToSet(freeIds) :
       startId <= id /\ id < startId + maxCount
  /\ nextId <= startId + maxCount
  /\ allocated \cup SeqToSet(freeIds) = startId..(nextId - 1)

\* C2 witness: the range is used up and holds both live and released ids.
C2_Witness ==
  /\ nextId = startId + maxCount
  /\ allocated # {}
  /\ Len(freeIds) >= 2

----------------------------------------------------------------------------
Dead == {"exit0", "exit1", "exitNull"}

\* All of cleanup's effects are in place for invocation i.
CleanupComplete(i) ==
  /\ inv[i].cleanupPromise = "resolved"
  /\ ~inv[i].timeoutHandle
  /\ i \notin activeSclangProcesses
  /\ i \notin files
  /\ inv[i].listening = {}

\* C3: when the promise of an invocation that spawned a worker settles,
\* with success or failure, its cleanup has completed: timer cancelled,
\* registry entry removed, scratch file deleted, signal handlers removed.
C3_CleanupBeforeResult ==
  \A i \in Invs :
    inv[i].childProc = "pid" /\ inv[i].result.st # "pending" => CleanupComplete(i)

C5_RegistryIffCleanupIncomplete ==
  ~hostExited =>
    \A i \in Invs :
      i \in activeSclangProcesses
        <=> (inv[i].childProc = "pid" /\ inv[i].cleanupPromise # "resolved")

\* C5 amended: a handle is in the registry exactly if it was spawned with a
\* pid, its cleanup has not started, and no killAllSclangProcesses call has
\* cleared it out of the registry.
C5_RegistryIffCleanupNotStarted ==
  ~hostExited =>
    \A i \in Invs :
      i \in activeSclangProcesses
        <=> /\ inv[i].childProc = "pid"
            /\ inv[i].cleanupPromise = "undefined"
            /\ i \notin dropped

\* C5 witness: one worker is tracked while the cleanup of another, already
\* out of the registry, is still waiting for its unlink.
C5_Witness ==
  \E i, j \in Invs :
    /\ i \in activeSclangProcesses
    /\ inv[j].childProc = "pid"
    /\ inv[j].cleanupPromise = "pending"
    /\ j \notin activeSclangProcesses

\* C6: when a killAllSclangProcesses call resolves, every worker that was
\* tracked before (one tracked while the call was waiting included) has
\* exited or has been sent a kill, and no worker is cleared out of the
\* registry without one of the two.
C6_NoWorkerOutlivesKillAll ==
  /\ [][\A k \in DOMAIN shutdown' :
          ((k \notin DOMAIN shutdown \/ shutdown[k].st # "resolved")
             /\ shutdown'[k].st = "resolved")
          => \A i \in Invs :
               inv'[i].childProc = "pid" => inv'[i].worker \in Dead \/ inv'[i].killSent]_vars
  /\ [](\A i \in dropped : inv[i].worker \in Dead \/ inv[i].killSent)

\* The settlement of the race that the first trigger makes.
SettledBy(r) ==
  CASE r.first = "timer" -> Failure(PlainError(TimeoutMessage(r.timeoutMs)))
    [] r.first = "error" -> r.race
    [] r.first = "exit" ->
         IF r.worker = "exit1" THEN Failure(PlainError(ExitMessage("1"))) ELSE Success
    [] OTHER -> Pending

C8_WorkerGoneAtTimeoutFailure ==
  \A i \in Invs :
    inv[i].first = "timer" /\ inv[i].result.st = "fail" => inv[i].worker \in Dead

KindOf(msg) ==
  CASE includes(msg, "interpreter not found") -> "executable-not-found"
    [] includes(msg, "no PID assigned") -> "spawn-failure"
    [] includes(msg, "timed out after") -> "timeout-exceeded"
    [] includes(msg, "exited with code") -> "nonzero-exit"
    [] OTHER -> "other"

\* The kind that belongs to what went wrong.
KindFor(cause) ==
  CASE cause = "ENOENT" -> "executable-not-found"
    [] cause = "EAGAIN" -> "spawn-failure"
    [] cause = "timer" -> "timeout-exceeded"
    [] cause = "exit" -> "nonzero-exit"
    [] OTHER -> "other"

\* C10: a call that failed because the executable is missing, no pid was
\* assigned, the timer fired first or the worker exited with a non-zero code
\* reports the kind of that cause.
C10_KindMatchesCause ==
  \A i \in Invs :
    inv[i].result.st = "fail" /\ inv[i].cause \in {"ENOENT", "EAGAIN", "timer", "exit"}
      => KindOf(inv[i].result.msg) = KindFor(inv[i].cause)

----------------------------------------------------------------------------
\* C11: an invocation whose spawn gave a handle without pid registers
\* nothing (no registry entry, no signal handler, no timer), is not cut off
\* by the failed spawn, and ends with the spawn failure and its scratch file
\* deleted.
C11_NoPidFailsCleanly ==
  \A i \in Invs :
    inv[i].childProc = "nopid" =>
      /\ i \notin activeSclangProcesses
      /\ inv[i].listening = {}
      /\ ~inv[i].signalHandler
      /\ ~inv[i].timeoutHandle
      /\ inv[i].cause # "unhandled"
      /\ inv[i].result.st # "pending" =>
           /\ inv[i].result = Failure(ScError(NoPidMessage))
           /\ i \notin files

\* C12: a finished invocation with no deletion still under way has left no
\* scratch file behind, and an invocation makes its scratch file once, before
\* it spawns.
C12_NoScratchFileLeft ==
  \A i \in Invs :
    /\ i \in files => inv[i].pc \notin {"idle", "writing"}
    /\ inv[i].pc = "done" /\ inv[i].cleanupPromise # "pending" => i \notin files

----------------------------------------------------------------------------
\* C13: the call succeeds exactly if the worker's exit is the first trigger
\* and its code is 0 or null, and then returns the text captured from
\* standard output; an exit with another code as first trigger gives a
\* failure that carries the code; what was captured from standard error
\* plays no part.
C13_SuccessIffCleanExitFirst ==
  /\ [](\A i \in Invs :
          /\ inv[i].result.st = "ok" <=>
               inv[i].first = "exit" /\ inv[i].worker \in {"exit0", "exitNull"}
          /\ inv[i].first = "exit" /\ inv[i].worker = "exit1" =>
               /\ inv[i].result.st # "ok"
               /\ inv[i].result.st = "fail" =>
                    includes(inv[i].result.msg, "exited with code 1"))
  /\ [][\A i \in Invs :
          inv[i].result.st = "pending" /\ inv'[i].result.st = "ok" =>
            inv'[i].returned = inv[i].stdout]_vars

\* C13 witness: a worker that wrote to standard error and to standard output
\* exited with code 0, and the call succeeded with the captured output.
C13_Witness ==
  \E i \in Invs :
    /\ inv[i].result.st = "ok"
    /\ inv[i].worker = "exit0"
    /\ includes(inv[i].stderr, "ERROR")
    /\ inv[i].returned = OutChunk(1)

\* C14: a call that succeeded after its worker exited with code 0 returned
\* everything the worker had written to standard output.
C14_ReturnsAllOutput ==
  \A i \in Invs :
    inv[i].result.st = "ok" /\ inv[i].worker = "exit0" =>
      inv[i].returned = inv[i].outWritten

----------------------------------------------------------------------------
\* C15: an invocation's handler is registered for SIGTERM and SIGINT and
\* for nothing else, for both of them while the race is undecided, and for
\* neither once the invocation's result has been delivered.
C15_SignalHandlersGoneAtResult ==
  \A i \in Invs :
    /\ inv[i].listening \subseteq {"SIGTERM", "SIGINT"}
    /\ inv[i].pc = "racing" /\ Len(shutdown) = 0 =>
         inv[i].listening = {"SIGTERM", "SIGINT"}
    /\ inv[i].result.st # "pending" =>
         inv[i].listening = {} /\ ~inv[i].signalHandler

----------------------------------------------------------------------------
\* C16: a killAllSclangProcesses call that found workers in the registry
\* resolves only when each of them has emitted exit or had its grace timer
\* fire: never in the step of the call itself unless all of them had
\* already emitted exit, and from waiting only on the last exit or grace
\* timer; the registry is empty when it resolves.
C16_KillAllResolvesAfterAccounting ==
  [][\A k \in DOMAIN shutdown' :
       /\ (k \notin DOMAIN shutdown /\ activeSclangProcesses # {}
              /\ shutdown'[k].st = "resolved")
            => /\ \A i \in activeSclangProcesses : inv[i].exitSeen
               /\ activeSclangProcesses' = {}
       /\ (k \in DOMAIN shutdown /\ shutdown[k].st = "waiting"
              /\ shutdown'[k].st = "resolved")
            => /\ Cardinality(shutdown[k].wait) = 1
               /\ activeSclangProcesses' = {}]_vars

\* C17: a killAllSclangProcesses call tries the group kill for every worker
\* in the registry, tries the direct kill exactly if the group kill failed,
\* and in both cases starts waiting for that worker, all waits starting in
\* the step of the call.
C17_KillAllKillsAndWaitsForEach ==
  [][\A k \in DOMAIN shutdown' :
       k \notin DOMAIN shutdown =>
         \A i \in activeSclangProcesses :
           /\ inv'[i].killAllKills =
                inv[i].killAllKills \o
                  (IF GroupKillOk(inv[i]) THEN <<"group">> ELSE <<"group", "direct">>)
           /\ shutdown'[k].st = "waiting"
           /\ i \in shutdown'[k].wait]_vars

----------------------------------------------------------------------------
\* C18: a killAllSclangProcesses call that finds the registry empty resolves
\* in the step of the call, makes no kill call, leaves the registry and the
\* record of cleared workers as they are, and changes nothing of an
\* invocation whose own signal handler did not run in that step.
C18_KillAllOnEmptyRegistryIsNoOp ==
  [][\A k \in DOMAIN shutdown' :
       k \notin DOMAIN shutdown /\ activeSclangProcesses = {} =>
         /\ shutdown'[k] = [st |-> "resolved", wait |-> {}]
         /\ activeSclangProcesses' = {}
         /\ dropped' = dropped
         /\ \A i \in Invs :
              /\ inv'[i].killAllKills = inv[i].killAllKills
              /\ inv'[i].listening = inv[i].listening => inv'[i] = inv[i]]_vars

\* C18 witness: two calls have resolved and the worker got the kill of the
\* first only; the second found nothing in the registry.
C18_Witness ==
  /\ Len(shutdown) = 2
  /\ shutdown[1].st = "resolved"
  /\ shutdown[2].st = "resolved"
  /\ inv[1].killAllKills = <<"group">>
  /\ activeSclangProcesses = {}

----------------------------------------------------------------------------
\* The end of the range: one past its last id.
RangeEnd == startId + maxCount

\* C19: with a non-empty free set alloc() returns one of its members, moves
\* it to allocated and leaves the watermark alone; with an empty free set
\* and the watermark below the range end it returns the watermark, adds it
\* to allocated and advances the watermark by one; the watermark moves in no
\* other case.
C19_AllocPrefersFreeThenWatermark ==
  [][lastOp' = "alloc" =>
       /\ freeIds # <<>> =>
            \E id \in SeqToSet(freeIds) :
              /\ lastRet' = {id}
              /\ SeqToSet(freeIds') = SeqToSet(freeIds) \ {id}
              /\ allocated' = allocated \cup {id}
              /\ nextId' = nextId
       /\ freeIds = <<>> /\ nextId < RangeEnd =>
            /\ lastRet' = {nextId}
            /\ allocated' = allocated \cup {nextId}
            /\ freeIds' = <<>>
            /\ nextId' = nextId + 1
       /\ nextId' # nextId => freeIds = <<>> /\ nextId < RangeEnd]_vars

\* C19 witness: alloc() has just returned a recycled id although the
\* watermark was below the range end.
C19_Witness ==
  /\ lastOp = "alloc"
  /\ nextId < RangeEnd
  /\ \E id \in lastRet : id < nextId - 1

\* C20: with the watermark at the range end and an empty free set alloc()
\* returns null and changes nothing; in every other state it returns an id,
\* so after a free(id) of a live id the next alloc() succeeds.
C20_ExhaustionReturnsNull ==
  [][lastOp' = "alloc" =>
       /\ freeIds = <<>> /\ nextId >= RangeEnd =>
            /\ lastRet' = {}
            /\ allocated' = allocated
            /\ freeIds' = freeIds
            /\ nextId' = nextId
       /\ lastOp = "free" /\ freeIds # <<>> => lastRet' = {Head(freeIds)}
       /\ lastRet' = {} => freeIds = <<>> /\ nextId >= RangeEnd]_vars

\* C20 witness: alloc() has just returned null on a range of at least two
\* ids that are all allocated.
C20_Witness ==
  /\ lastOp = "alloc"
  /\ lastRet = {}
  /\ maxCount >= 2
  /\ nextId = RangeEnd
  /\ freeIds = <<>>
  /\ Cardinality(allocated) = maxCount

----------------------------------------------------------------------------
\* C21: on a fresh allocator with range size N the k-th alloc() returns
\* startId + k - 1 for k <= N and null after that; when one live id x is
\* then freed, the next alloc() returns x.
C21_FreshAllocatorIssuesInOrder ==
  [][lastOp' = "alloc" =>
       /\ lastOp \in {"new", "alloc"} =>
            lastRet' = IF Cardinality(allocated) < maxCount
                         THEN {startId + Cardinality(allocated)}
                         ELSE {}
       /\ lastOp = "free" =>
            \A x \in startId..(RangeEnd - 1) :
              ~isAllocated(x) => lastRet' = {x}]_vars

\* C21 witness: the range [1000, 1003) was used up, 1001 was freed and
\* alloc() has returned 1001.
C21_Witness ==
  /\ kind = "node"
  /\ maxCount = 3
  /\ lastOp = "alloc"
  /\ lastRet = {NodeStartId + 1}
  /\ allocated = NodeStartId..(NodeStartId + 2)
  /\ nextId = NodeStartId + 3

----------------------------------------------------------------------------
\* C22: after free(id) the id is not allocated, and free(id) on an id that
\* is not allocated (never allocated, already free, outside the range)
\* changes nothing; so a second free(id) in succession changes nothing and
\* twice is the same as once.
C22_FreeIdempotentAndTotal ==
  [][\A id \in FreeArgs :
       free(id) =>
         /\ ~isAllocated(id)'
         /\ nextId' = nextId
         /\ isAllocated(id) =>
              allocated' = allocated \ {id} /\ freeIds' = Append(freeIds, id)
         /\ ~isAllocated(id) =>
              allocated' = allocated /\ freeIds' = freeIds]_vars

\* C22 witness: free was called on an allocator that has ids in its free
\* set, ids allocated and ids never issued.
C22_Witness ==
  /\ lastOp = "free"
  /\ freeIds # <<>>
  /\ allocated # {}
  /\ nextId < RangeEnd

\* C23: after reset() nothing is allocated, the count is 0 and the free set
\* is empty, and the alloc() that follows returns the range start (null on
\* an empty range, which has no start to return).
C23_ResetRestoresInitialState ==
  /\ [](lastOp = "reset" =>
          /\ \A x \in FreeArgs : ~isAllocated(x)
          /\ allocated = {}
          /\ getAllocatedCount = 0
          /\ freeIds = <<>>)
  /\ [][lastOp = "reset" /\ lastOp' = "alloc" =>
          lastRet' = IF maxCount > 0 THEN {startId} ELSE {}]_vars

\* C23 witness: reset() has just been called on an allocator whose last
\* alloc() had returned an id above the range start.
C23_Witness ==
  /\ lastOp = "reset"
  /\ lastRet # {}
  /\ lastRet # {startId}

----------------------------------------------------------------------------
\* An allocator of kind k in its initial state: no id allocated, and the next
\* alloc() returns the range start.
Initial(k, a) == a.allocatedIds = {} /\ AllocOf(k, a).id = {StartIdOf(k)}

\* The step on which the disconnect() of call c completes.
DisconnectCompletes(c) ==
  calls[c].pc # "done" /\ calls'[c].pc = "done" /\ calls'[c].tool = "quit_server"

\* C24: whenever a disconnect() call completes, resolved or rejected, each of
\* the client's four allocators is in its initial state: it holds no id and
\* its next alloc() returns the start of its range.
C24_DisconnectLeavesAllocatorsInitial ==
  [][\A c \in Callers :
       DisconnectCompletes(c) => \A k \in Kinds : Initial(k, allocators'[k])]_vars

\* A disconnect() has rejected and the allocators are in their initial state
\* while another tool call still holds the id it was given before.
C24_Witness ==
  \E c, d \in Callers :
    /\ calls[c].tool = "quit_server" /\ calls[c].pc = "done"
    /\ calls[c].response = "error"
    /\ calls[d].id # {} /\ calls[d].pc = "reply"
    /\ \A k \in Kinds : Initial(k, allocators[k])

----------------------------------------------------------------------------
\* The id ranges the client's allocators are documented with.
DocumentedRange(k) ==
  CASE k = "node" -> 1000..2023
    [] k = "buffer" -> 0..1023
    [] k = "audioBus" -> 8..135
    [] k = "controlBus" -> 0..16383

DocumentedSize(k) ==
  CASE k = "node" -> 1024
    [] k = "buffer" -> 1024
    [] k = "audioBus" -> 128
    [] k = "controlBus" -> 16384

\* C25: with the limits the client passes, every id an allocator returns lies
\* in its documented range (node 1000..2023, buffer 0..1023, audio bus
\* 8..135, control bus 0..16383), and alloc() returns null only when the
\* allocator holds exactly as many live ids as the range has (1024, 1024,
\* 128, 16384).
C25_ClientRangesAndCapacities ==
  /\ lastRet \subseteq DocumentedRange(kind)
  /\ Cardinality(allocated) <= DocumentedSize(kind)
  /\ lastOp = "alloc" /\ lastRet = {} => Cardinality(allocated) = DocumentedSize(kind)
  /\ lastOp = "alloc" /\ lastRet # {} => lastRet \subseteq allocated

\* The audio bus allocator has just returned null with the 128 ids 8..135
\* live.
C25_Witness ==
  /\ kind = "audioBus"
  /\ lastOp = "alloc" /\ lastRet = {}
  /\ allocated = 8..135

----------------------------------------------------------------------------
\* A step of invocation i itself: of its call, its cleanup, its timer, its
\* failure, or of its worker.
OwnStep(i) ==
  \/ Call(i) \/ SpawnWorker(i) \/ SpawnNoPid(i) \/ SpawnThrows(i)
  \/ NoPidUnlinkDone(i) \/ UnhandledError(i)
  \/ WorkerExit(i) \/ WorkerDies(i)
  \/ ExitEvent(i) \/ ErrorEvent(i) \/ TimerFires(i) \/ UnlinkDone(i)

\* Invocation j has been called and has not delivered its result.
Outstanding(j) == inv[j].pc \notin {"idle", "done", "gone"}

\* Invocation j's scratch file, timer, registry entry, worker and result are
\* after the step what they were before it.
Untouched(j) ==
  /\ inv'[j] = inv[j]
  /\ (j \in files') = (j \in files)
  /\ (j \in activeSclangProcesses') = (j \in activeSclangProcesses)

\* C26: with several executeSclang invocations outstanding and no shutdown
\* under way, a step of one of them (its cleanup, its timeout, its failure)
\* never deletes another's scratch file, cancels its timer, removes its
\* registry entry, kills its worker or changes its result.
C26_InvocationsDoNotInterfere ==
  [][\A i \in Invs :
       OwnStep(i) /\ shutdown = <<>> =>
         \A j \in Invs \ {i} : Outstanding(j) => Untouched(j)]_vars

----------------------------------------------------------------------------
\* The results have one entry per item, in the order of the items; after a
\* failed run every entry is a failure with the run's error, after a
\* successful run entry k tells whether artifact k could be read.
OnePerItem(b) ==
  /\ Len(b.results) = Len(b.synthDefs)
  /\ \A k \in 1..Len(b.results) :
       /\ b.results[k].name = b.synthDefs[k]
       /\ ~b.compiled => ~b.results[k].success /\ b.results[k].error = b.error
       /\ b.compiled => b.results[k].success = b.read[k]

\* C27: a finished compileSynthDefsBatch call has returned exactly one result
\* entry per input item, in input order; if the shared interpreter run
\* failed every item is reported failed with the run's error, and if it
\* succeeded each item is reported by whether its own artifact could be read.
C27_BatchReturnsOneResultPerItem ==
  batch.pc = "done" => batch.settled = "returned" /\ OnePerItem(batch)

----------------------------------------------------------------------------
\* The step on which call c calls disconnect() in state 'disconnected'.
DisconnectWhenDisconnected(c) ==
  /\ calls[c].pc = "idle"
  /\ calls'[c].tool = "quit_server"
  /\ connectionState = "disconnected"

\* C28: a new client is in state 'disconnected' with a null server handle;
\* disconnect() called in state 'disconnected' resolves at once, does not
\* call quit, and leaves the connection state and the server handle as they
\* were.
C28_DisconnectWhenDisconnectedIsNoOp ==
  /\ connectionState = "disconnected" /\ scServer = "null"
  /\ [][\A c \in Callers :
          DisconnectWhenDisconnected(c) =>
            /\ calls'[c].pc = "done" /\ calls'[c].response = "success"
            /\ calls'[c].op # "quit"
            /\ connectionState' = connectionState
            /\ scServer' = scServer]_vars

\* A disconnect() has returned through its early exit: the call is finished
\* without having reached quit() or the reset, and the client is
\* 'disconnected' with a null handle.
C28_Witness ==
  \E c \in Callers :
    /\ calls[c].tool = "quit_server" /\ calls[c].pc = "done"
    /\ calls[c].op = "none" /\ calls[c].response = "success"
    /\ connectionState = "disconnected" /\ scServer = "null"

----------------------------------------------------------------------------
\* The ports probed so far were taken in list order, one probe per port: the
\* outcomes recorded are those of ports 1, 2, ... of the list, a port
\* outside 0..65535 counts as closed and never has a connection opened, and
\* every other probe was settled by one of connect, error and timeout.
ProbedInOrder(s) ==
  /\ Len(s.settledBy) <= Len(s.portsToScan)
  /\ \A j \in 1..Len(s.opened) : \A l \in 1..Len(s.opened) :
       j < l => s.opened[j] < s.opened[l]
  /\ \A j \in 1..Len(s.settledBy) :
       LET p == s.portsToScan[j]
           out == Lt(p, 0) \/ Gt(p, 65535)
       IN  /\ out <=> s.settledBy[j] = "invalid"
           /\ out => \A l \in 1..Len(s.opened) : s.opened[l] # j
           /\ ~out => s.settledBy[j] \in {"connect", "error", "timeout"}
                      /\ \E l \in 1..Len(s.opened) : s.opened[l] = j

\* C29: discoverSuperCollider probes the ports one at a time in list order;
\* it returns the first port whose probe connects, without probing a later
\* one, and null when no probe connects; it never rejects; a port outside
\* 0..65535 counts as closed without a connection being opened; each probe
\* settles exactly once, by connect, error or timeout.
C29_DiscoveryReturnsFirstOpenPort ==
  /\ scan.result # "rejected"
  /\ ProbedInOrder(scan)
  /\ scan.result = "null" =>
       /\ Len(scan.settledBy) = Len(scan.portsToScan)
       /\ \A j \in 1..Len(scan.settledBy) : scan.settledBy[j] # "connect"
  /\ scan.result \notin {"pending", "null", "rejected"} =>
       LET n == Len(scan.settledBy)
       IN  /\ scan.result = ToString(scan.portsToScan[n].n)
           /\ scan.settledBy[n] = "connect"
           /\ \A j \in 1..(n - 1) : scan.settledBy[j] # "connect"
           /\ \A l \in 1..Len(scan.opened) : scan.opened[l] <= n

----------------------------------------------------------------------------
\* The step on which call c is dispatched to an allocating tool whose
\* arguments pass validation.
AllocatingCall(c) ==
  /\ calls[c].pc = "idle"
  /\ calls'[c].tool \in AllocatingTools
  /\ calls'[c].arg # "invalid"

\* What alloc() returns to the tool t in the current state.
Offered(t) == AllocOf(AllocatorOf(t), allocators[AllocatorOf(t)]).id

\* C30: create_synth, create_group, load_audio_file and record_jack_input get
\* their id from the allocator before anything is sent to the engine: a call
\* that waits for the engine or has sent a message holds the id alloc()
\* returned to it.  When alloc() returns null the call ends at once with an
\* error response, nothing is sent, no connection is attempted and the
\* allocators are unchanged.
C30_AllocateBeforeCommand ==
  /\ [](\A c \in Callers :
          calls[c].tool \in AllocatingTools
            /\ (calls[c].sent > 0 \/ calls[c].pc \in {"boot", "reply", "sclang"})
            => calls[c].id # {})
  /\ [][\A c \in Callers :
          AllocatingCall(c) =>
            /\ calls'[c].id = Offered(calls'[c].tool)
            /\ calls'[c].id \subseteq
                 allocators'[AllocatorOf(calls'[c].tool)].allocatedIds
            /\ Offered(calls'[c].tool) = {} =>
                 /\ calls'[c].pc = "done" /\ calls'[c].response = "error"
                 /\ calls'[c].sent = 0
                 /\ allocators' = allocators
                 /\ connectionState' = connectionState
                 /\ scServer' = scServer]_vars

\* A create_synth, create_group or load_audio_file call has ended with an
\* error response without an id and without having asked the engine for
\* anything, and its allocator holds as many ids as it can.
C30_Witness ==
  \E c \in Callers :
    /\ calls[c].tool \in {"create_synth", "create_group", "load_audio_file"}
    /\ calls[c].pc = "done" /\ calls[c].response = "error"
    /\ calls[c].id = {} /\ calls[c].sent = 0 /\ calls[c].op = "none"
    /\ Cardinality(allocators[AllocatorOf(calls[c].tool)].allocatedIds) = MaxIds

----------------------------------------------------------------------------
\* The call c starts a request to the engine (boot_server's connect() and
\* getStatus(), or a command), which connects first unless the state is
\* 'connected'.
ConnectCalled(c) ==
  calls'[c].op \in {"status", "send"} /\ calls'[c].op # calls[c].op

\* The call c starts a disconnect().
DisconnectCalled(c) ==
  calls[c].pc = "idle" /\ calls'[c].pc # "idle" /\ calls'[c].tool = "quit_server"

\* The boot the call c waited for settles.
BootCompletes(c) == calls[c].pc = "boot" /\ calls'[c] # calls[c]

\* C31: the connection state only moves as follows.  connect() in
\* 'connected' starts no boot and leaves the state; connect() in any other
\* state sets 'connecting' and waits for the boot, whose success sets
\* 'connected' and whose failure sets 'error' and fails the call;
\* disconnect() in a state other than 'disconnected' ends in 'disconnected'
\* when quit() succeeded (or there was no handle to quit) and in 'error',
\* failing the call, when quit() failed.  No other step changes the state.
C31_ConnectionStateTransitions ==
  [][/\ \A c \in Callers :
          /\ ConnectCalled(c) /\ connectionState = "connected" =>
               calls'[c].pc # "boot" /\ connectionState' = "connected"
          /\ ConnectCalled(c) /\ connectionState # "connected" =>
               calls'[c].pc = "boot" /\ connectionState' = "connecting"
          /\ BootCompletes(c) =>
               \/ connectionState' = "connected" /\ scServer' = "server"
                    /\ calls'[c].response # "error"
               \/ connectionState' = "error"
                    /\ calls'[c].pc = "done" /\ calls'[c].response = "error"
          /\ DisconnectCalled(c) /\ connectionState # "disconnected" =>
               \/ calls'[c].pc = "quit" /\ connectionState' = connectionState
               \/ scServer = "null" /\ connectionState' = "disconnected"
                    /\ calls'[c].response = "success"
          /\ DisconnectCompletes(c) =>
               \/ connectionState' = "disconnected" /\ calls'[c].response = "success"
               \/ connectionState' = "error" /\ calls'[c].response = "error"
     /\ connectionState' # connectionState =>
          \E c \in Callers :
            \/ ConnectCalled(c) /\ connectionState # "connected"
            \/ BootCompletes(c)
            \/ DisconnectCalled(c) /\ connectionState # "disconnected"
            \/ DisconnectCompletes(c)]_vars

\* A connect() has failed and left the state 'error', and a later
\* disconnect() from 'error' has ended in 'disconnected'.
C31_Witness ==
  \E c, d \in Callers :
    /\ calls[c].tool = "boot_server" /\ calls[c].pc = "done"
    /\ calls[c].response = "error" /\ calls[c].sent = 0
    /\ calls[d].tool = "quit_server" /\ calls[d].pc = "done"
    /\ calls[d].response = "success" /\ calls[d].op = "reset"
    /\ connectionState = "disconnected"

----------------------------------------------------------------------------
CreatingTools == {"create_synth", "create_group", "load_audio_file"}

\* The command of the call c (its connection, its message or its sync)
\* fails on this step.
CommandFails(c) ==
  /\ calls[c].pc \in {"boot", "reply"}
  /\ calls'[c].pc = "done" /\ calls'[c].response = "error"

\* The command of the freeing call c succeeds on this step.
FreeSucceeds(c) ==
  /\ calls[c].tool \in FreeingTools /\ calls[c].pc = "reply"
  /\ calls'[c].pc = "done" /\ calls'[c].response = "success"

\* This step resets the allocators: a disconnect() gets past its early
\* return.
ResetStep ==
  \E c \in Callers :
    /\ calls'[c].tool = "quit_server" /\ calls'[c].pc = "done"
    /\ calls'[c].op \in {"quit", "reset"} /\ calls[c].pc # "done"

\* C35: when the command of create_synth, create_group or load_audio_file
\* fails after the id was allocated, the call returns an error response and
\* the allocators are as before, so the id stays allocated; and when the
\* command of free_synth, free_group or free_buffer fails, the allocators are
\* as before too.  An id leaves an allocator only on the step on which a
\* freeing call for that id got the engine's success, or on a reset.
C35_FailedCommandKeepsId ==
  [][/\ \A c \in Callers :
          calls[c].tool \in CreatingTools \cup FreeingTools /\ CommandFails(c) =>
            /\ allocators' = allocators
            /\ calls'[c].id = calls[c].id
     /\ \A k \in {"node", "buffer"} :
          \A id \in allocators[k].allocatedIds \ allocators'[k].allocatedIds :
            \/ ResetStep
            \/ \E c \in Callers :
                 /\ FreeSucceeds(c)
                 /\ AllocatorOf(calls[c].tool) = k /\ calls[c].arg = id]_vars

\* A create call has sent its command, got a failure and returned an error
\* response, and the id it was given is still allocated; and a freeing call
\* for an allocated id has failed and the id is still allocated.
C35_Witness ==
  \E c, d \in Callers :
    /\ calls[c].tool \in CreatingTools /\ calls[c].pc = "done"
    /\ calls[c].response = "error" /\ calls[c].sent > 0
    /\ calls[c].id # {}
    /\ calls[c].id \subseteq allocators[AllocatorOf(calls[c].tool)].allocatedIds
    /\ calls[d].tool \in FreeingTools /\ calls[d].pc = "done"
    /\ calls[d].response = "error" /\ calls[d].sent > 0
    /\ calls[d].arg \in allocators[AllocatorOf(calls[d].tool)].allocatedIds

----------------------------------------------------------------------------
\* C38: whenever the connection state is 'connected' the server handle is
\* not null, whatever the interleaving of the calls that connect, query,
\* send, sync and disconnect and of the boots and quits that settle.
C38_ConnectedHasHandle ==
  connectionState = "connected" => scServer # "null"

\* The client is 'connected' with a handle again after a disconnect() that
\* succeeded, while another call waits for the engine's reply.
C38_Witness ==
  \E c, d \in Callers :
    /\ calls[c].tool = "quit_server" /\ calls[c].pc = "done"
    /\ calls[c].response = "success" /\ calls[c].op = "quit"
    /\ calls[d].pc = "reply"
    /\ connectionState = "connected" /\ scServer = "server"

----------------------------------------------------------------------------
\* The worker of r was sent SIGKILL because of a host termination signal: by
\* killAllSclangProcesses or by the signal handler of its own invocation.
SignalKilled(r) ==
  /\ r.killSent
  /\ r.killAllKills # <<>> \/ (r.kills # <<>> /\ "signal" \in r.callers /\ r.first # "timer")

\* C36: a worker exits without a code only after it was sent SIGKILL; and
\* when a worker killed because of a host termination signal exits without a
\* code while its executeSclang call is outstanding, the 'exit' event
\* resolves the call with the standard output captured up to then.
C36_ForceKilledWorkerResolves ==
  /\ [](\A i \in Invs : inv[i].worker = "exitNull" => inv[i].killSent)
  /\ [][\A i \in Invs :
          /\ inv[i].pc = "racing" /\ SignalKilled(inv[i])
          /\ inv[i].worker = "exitNull"
          /\ ~inv[i].exitSeen /\ inv'[i].exitSeen
          => /\ inv'[i].pc = "done"
             /\ inv'[i].result = Success
             /\ inv'[i].returned = inv[i].stdout]_vars

\* A call has resolved after a host signal killed its worker: the worker
\* exited without a code, and the call returned the one chunk read from
\* standard output, less than the worker had written.
C36_Witness ==
  \E i \in Invs :
    /\ inv[i].result.st = "ok"
    /\ inv[i].worker = "exitNull"
    /\ SignalKilled(inv[i])
    /\ inv[i].returned = OutChunk(1)
    /\ inv[i].outWritten # inv[i].returned

----------------------------------------------------------------------------
\* The kill attempts cleanup() can make: none, the group kill, or the group
\* kill and the direct kill it falls back to.
KillAttempts == {<<>>, <<"group">>, <<"group", "direct">>}

\* The body of cleanup() runs for invocation i on this step: the first
\* cleanup trigger.
FirstCleanup(i) == inv[i].runs = 0 /\ inv'[i].runs = 1

\* C37: an invocation makes at most one kill attempt (the group kill with
\* its direct-kill fallback), and makes it on the step of its first cleanup
\* trigger, which then is the timeout or a termination signal.  When the
\* first trigger is the worker's exit or an 'error' event no kill is made on
\* that step and the worker leaves the registry, and after the first cleanup
\* no kill is made at all, whoever calls cleanup() later.  (The catch block
\* of a rejection runs on the step of the trigger that rejected.)
C37_OneKillAttemptOnlyOnTimeoutOrSignal ==
  /\ [](\A i \in Invs : inv[i].kills \in KillAttempts /\ inv[i].runs <= 1)
  /\ [][\A i \in Invs : inv'[i].pc # "gone" =>
          /\ inv'[i].kills # inv[i].kills =>
               /\ FirstCleanup(i)
               /\ inv'[i].callers \ {"catch"} \in {{"timer"}, {"signal"}}
          /\ FirstCleanup(i) /\ inv'[i].callers \ {"catch"} \in {{"exit"}, {"error"}} =>
               /\ inv'[i].kills = <<>>
               /\ inv'[i].killSent = inv[i].killSent
               /\ i \notin activeSclangProcesses'
          /\ inv[i].runs = 1 => inv'[i].kills = inv[i].kills]_vars

\* After an 'error' event as first trigger the catch block has called
\* cleanup() with kill and the call has failed: no kill was made, the worker
\* still runs and is no longer in the registry.
C37_Witness ==
  \E i \in Invs :
    /\ inv[i].callers = {"error", "catch"}
    /\ inv[i].pc = "done" /\ inv[i].result.st = "fail"
    /\ inv[i].kills = <<>> /\ ~inv[i].killSent
    /\ inv[i].worker = "running"
    /\ i \notin activeSclangProcesses

----------------------------------------------------------------------------
\* The sclang boots in flight.
BootsInFlight == {j \in LangCallers : sclangClient.ops[j].pc = "boot"}

\* The connect() calls that have not settled.
ConnectsUnsettled ==
  {j \in LangCallers : sclangClient.ops[j].method = "connect"
                         /\ sclangClient.ops[j].pc \in {"boot", "verify"}}

\* connect() is called in slot j on this step.
SclangConnectCalled(j) ==
  /\ sclangClient.ops[j].pc = "idle"
  /\ sclangClient'.ops[j].method = "connect"

\* C32: at most one sclang boot is in flight at any time; a connect() called
\* while an earlier connect() has not settled is rejected (with 'Connection
\* already in progress', code SCLANG_NOT_CONNECTED) and starts no boot; a
\* connect() in state 'connected' returns without booting; whatever the
\* interleaving of connect() and disconnect() calls.
C32_AtMostOneBootInFlight ==
  /\ [](Cardinality(BootsInFlight) <= 1)
  /\ [][\A j \in LangCallers : SclangConnectCalled(j) =>
          /\ ConnectsUnsettled # {} =>
               /\ sclangClient'.ops[j].outcome = "rejected"
               /\ sclangClient'.ops[j].code = "SCLANG_NOT_CONNECTED"
               /\ sclangClient'.ops[j].pc = "done"
          /\ sclangClient.state = "connected" /\ ConnectsUnsettled = {} =>
               /\ sclangClient'.ops[j].outcome = "resolved"
               /\ sclangClient'.ops[j].pc = "done"]_vars

----------------------------------------------------------------------------
\* A JITlib verification is pending: it has not returned.
Verifying == {j \in LangCallers : sclangClient.ops[j].pc = "verify"}

\* The verification of slot j returns on this step, with true or false.
VerifiedOk(j) ==
  sclangClient.ops[j].pc = "verify" /\ sclangClient'.ops[j].outcome = "resolved"

VerifiedFailed(j) ==
  sclangClient.ops[j].pc = "verify" /\ sclangClient'.ops[j].outcome = "rejected"

\* The events emitted on this step.
Emitted(e) == \E n \in DOMAIN sclangClient'.emitted : sclangClient'.emitted[n] = e

\* C33: with verifyJITlib on, isConnected() is not true and no pattern
\* operation is passed to the interpreter while a verification has not
\* returned; 'connected' is emitted only on the step on which a verification
\* returned true; and when the verification fails connect() rejects with
\* SCLANG_JITLIB_NOT_LOADED and leaves the state 'error' and isConnected()
\* false.
C33_ConnectedOnlyAfterVerification ==
  /\ [](sclangClient.verifyJITlib /\ Verifying # {} => ~isConnected(sclangClient))
  /\ [][sclangClient.verifyJITlib =>
          /\ \A j \in LangCallers :
               sclangClient.ops[j].pc = "idle" /\ sclangClient'.ops[j].pc = "interpret"
                 => Verifying = {}
          /\ Emitted("connected") => \E j \in LangCallers : VerifiedOk(j)
          /\ \A j \in LangCallers : VerifiedFailed(j) =>
               /\ sclangClient'.ops[j].code = "SCLANG_JITLIB_NOT_LOADED"
               /\ sclangClient'.state = "error"
               /\ ~isConnected(sclangClient')]_vars

----------------------------------------------------------------------------
\* The disconnect() of slot j settles on this step.
SclangDisconnectCompletes(j) ==
  /\ sclangClient'.ops[j].method = "disconnect"
  /\ sclangClient.ops[j].pc # "done" /\ sclangClient'.ops[j].pc = "done"

\* How many 'stateChange' events this step emitted.
StateChangesEmitted ==
  Cardinality({n \in DOMAIN sclangClient'.emitted : sclangClient'.emitted[n] = "stateChange"})

\* C34: disconnect() never rejects and ends with the state 'disconnected'
\* and no interpreter handle, also when quit() failed; 'disconnected' is
\* emitted only on a step on which a quit() succeeded; and a step emits
\* 'stateChange' exactly when it changes the state, once.
C34_DisconnectNeverRejects ==
  [][/\ \A j \in LangCallers : SclangDisconnectCompletes(j) =>
          /\ sclangClient'.ops[j].outcome = "resolved"
          /\ sclangClient'.state = "disconnected"
          /\ sclangClient'.lang = "null"
     /\ Emitted("disconnected") =>
          \E j \in LangCallers :
            SclangDisconnectCompletes(j) /\ sclangClient'.ops[j].awaited = "ok"
     /\ StateChangesEmitted = IF sclangClient'.state # sclangClient.state THEN 1 ELSE 0]_vars

\* A disconnect() has resolved after its quit() failed: the state went from
\* 'connected' to 'disconnected' with one 'stateChange' and no 'disconnected'
\* event, and the handle is null.
C34_Witness ==
  \E j \in LangCallers :
    /\ sclangClient.ops[j].method = "disconnect"
    /\ sclangClient.ops[j].pc = "done"
    /\ sclangClient.ops[j].awaited = "failed"
    /\ sclangClient.ops[j].outcome = "resolved"
    /\ sclangClient.state = "disconnected" /\ sclangClient.lang = "null"
    /\ sclangClient.emitted = <<"stateChange">>

----------------------------------------------------------------------------
\* The server handles the boots have returned.
HandlesBooted == 1..scClient.booted

\* C39: the client never loses a booted engine: every server handle a boot
\* has returned is the client's current handle or has had quit() called on
\* it, whatever the interleaving of connect(), disconnect(), getStatus() and
\* sendOscMessage() calls.
C39_NoBootedEngineLost ==
  \A h \in HandlesBooted : h = scClient.scServer \/ h \in scClient.quitCalled

----------------------------------------------------------------------------
\* The call j is in a syncServer() that has reached the engine.
Syncing(s, j) == s.methods[j].syncId # -1

\* C40: every syncServer() call that reaches the engine uses a sync id no
\* other syncServer() call on the client uses or has used, also when calls
\* overlap: the ids passed to the engine strictly increase.  The id is the
\* value of a counter that never goes down, goes up by one with every id
\* taken and is left where it is when the sync fails.
C40_SyncIdsUnique ==
  /\ [](/\ \A a, b \in DOMAIN scClient.synced :
             a < b => scClient.synced[a] < scClient.synced[b]
        /\ \A a \in DOMAIN scClient.synced : scClient.synced[a] < scClient.nextSyncId
        /\ \A j, k \in MethodCallers :
             j # k /\ Syncing(scClient, j) /\ Syncing(scClient, k) =>
               scClient.methods[j].syncId # scClient.methods[k].syncId)
  /\ [][/\ scClient'.nextSyncId >= scClient.nextSyncId
        /\ \A j \in MethodCallers :
             /\ ~Syncing(scClient, j) /\ Syncing(scClient', j) =>
                  /\ scClient'.methods[j].syncId = scClient.nextSyncId
                  /\ scClient'.nextSyncId = scClient.nextSyncId + 1
                  /\ scClient'.synced = Append(scClient.synced, scClient.nextSyncId)
             /\ Syncing(scClient, j) /\ scClient.methods[j].pc = "reply"
                  /\ scClient'.methods[j].outcome = "rejected" =>
                  scClient'.nextSyncId = scClient.nextSyncId]_vars

\* A sync with id 0 has failed, and an overlapping syncServer() call waits
\* for the engine with id 1.
C40_Witness ==
  \E j, k \in MethodCallers :
    /\ scClient.methods[j].syncId = 0
    /\ scClient.methods[j].pc = "done" /\ scClient.methods[j].outcome = "rejected"
    /\ scClient.methods[k].syncId = 1 /\ scClient.methods[k].pc = "reply"
    /\ scClient.nextSyncId = 2

====
